---- MODULE Spec2Model ----
(***************************************************************************)
(* Tiered entity resolution (SafeGraph brands -> PAW companies) and the    *)
(* embedding generators of the entity-resolution scripts.                  *)
(*                                                                         *)
(* Strings are tuples of one-character strings, so that upper(), lower(),  *)
(* strip() and split() are computed and not assumed.  Scores and           *)
(* confidences are exact thousandths (1000 = 1.0).                         *)
(***************************************************************************)
EXTENDS Integers, Sequences, FiniteSets, TLC

(***************************************************************************)
(* Bounds of the model                                                     *)
(***************************************************************************)
\* number of rows of the SafeGraph brand table
NB == 3
\* POI names of the singleton candidate search
NP == 2
\* number of rows of the PAW company table
NC == 3
\* rows of the brand and of the company table in the ticker-only inputs
TickerBrands == 2
TickerCompanies == 2
\* names per request to the embedding service (2000 in the scripts)
BATCH_SIZE == 2
\* longest name list handed to a stand-alone generate_embeddings call
MaxNames == 3
\* candidates kept per brand (20 in the tiered resolver)
TOP_K == 2
\* most candidate pairs in the pool phase 2 samples from
MaxPairs == 4
\* largest --n_samples
MaxSamples == 4
\* most rows of the labeled sample
MaxLabeled == 4
\* most runs of the relabeling, training and prediction scripts
MaxRuns == 3
\* most unbranded POIs that share a name
MaxPlacekeys == 2
\* most words of a name handed to normalize_name
MaxWords == 3

\* acceptance floor of Tier 3, in thousandths (0.75)
TIER3_THRESHOLD == 750

(***************************************************************************)
(* str methods                                                             *)
(***************************************************************************)
\* a missing value (None / NaN) of an object column; not a string
NaN == <<"NaN">>
\* the string 'None'
NoneStr == <<"N", "o", "n", "e">>

UpperChar(c) ==
  CASE c = "a" -> "A" [] c = "b" -> "B" [] c = "w" -> "W" [] c = "t" -> "T"
    [] c = "n" -> "N" [] c = "o" -> "O" [] c = "e" -> "E" [] c = "i" -> "I"
    [] c = "c" -> "C" [] c = "d" -> "D" [] c = "m" -> "M" [] OTHER -> c

LowerChar(c) ==
  CASE c = "A" -> "a" [] c = "B" -> "b" [] c = "W" -> "w" [] c = "T" -> "t"
    [] c = "N" -> "n" [] c = "O" -> "o" [] c = "E" -> "e" [] c = "I" -> "i"
    [] c = "C" -> "c" [] c = "D" -> "d" [] c = "M" -> "m" [] OTHER -> c

StrUpper(s) == [i \in 1..Len(s) |-> UpperChar(s[i])]

StrLower(s) == [i \in 1..Len(s) |-> LowerChar(s[i])]

IsSpace(c) == c = " "

RECURSIVE LStrip(_)
LStrip(s) == IF s # <<>> /\ IsSpace(Head(s)) THEN LStrip(Tail(s)) ELSE s

RECURSIVE RStrip(_)
RStrip(s) ==
  IF s # <<>> /\ IsSpace(s[Len(s)]) THEN RStrip(SubSeq(s, 1, Len(s) - 1)) ELSE s

StrStrip(s) == RStrip(LStrip(s))

(***************************************************************************)
(* Tier 1: direct ticker matching                                          *)
(***************************************************************************)
\* the rows i of 1..n, in row order, that satisfy keep[i]
RECURSIVE RowsWhere(_, _)
RowsWhere(n, keep) ==
  IF n = 0 THEN <<>>
  ELSE IF keep[n] THEN Append(RowsWhere(n - 1, keep), n)
       ELSE RowsWhere(n - 1, keep)

\* notna() & != '' & != 'None', applied to the raw column value
HasTicker(v) == v # NaN /\ v # <<>> /\ v # NoneStr

\* .str.upper().str.strip()
TickerUpperNoUpper(v) == StrStrip(v)
TickerUpper(v) == StrStrip(StrUpper(v))

\* sg_with_ticker: brand rows that pass the ticker filter
SgWithTicker(sgT) ==
  RowsWhere(Len(sgT), [b \in 1..Len(sgT) |-> HasTicker(sgT[b].STOCK_SYMBOL)])

\* paw_with_ticker: company rows that pass the ticker filter
PawWithTicker(pawT) ==
  RowsWhere(Len(pawT), [c \in 1..Len(pawT) |-> HasTicker(pawT[c].ticker)])

\* drop_duplicates('ticker_upper'): the first row of every ticker_upper
PawTickersKeepAll(pawT) == PawWithTicker(pawT)
PawTickers(pawT) ==
  LET pwt == PawWithTicker(pawT)
      first == [c \in 1..Len(pawT) |->
                 /\ HasTicker(pawT[c].ticker)
                 /\ \A d \in 1..(c - 1) :
                      HasTicker(pawT[d].ticker) =>
                        TickerUpper(pawT[d].ticker) # TickerUpper(pawT[c].ticker)]
  IN  RowsWhere(Len(pawT), first)

Tier1Row(sgT, pawT, b, c) ==
  [SAFEGRAPH_BRAND_ID |-> sgT[b].SAFEGRAPH_BRAND_ID,
   BRAND_NAME         |-> sgT[b].BRAND_NAME,
   STOCK_SYMBOL       |-> sgT[b].STOCK_SYMBOL,
   rcid               |-> pawT[c].rcid,
   company_name       |-> pawT[c].company_name,
   match_tier         |-> 1,
   match_method       |-> "ticker",
   confidence         |-> 1000]

\* the rows of the inner merge whose left row is b, in right-row order
RECURSIVE MergeRight(_, _, _, _)
MergeRight(sgT, pawT, b, right) ==
  IF right = <<>> THEN <<>>
  ELSE LET c == Head(right)
           rest == MergeRight(sgT, pawT, b, Tail(right))
       IN  IF TickerUpper(sgT[b].STOCK_SYMBOL) = TickerUpper(pawT[c].ticker)
           THEN <<Tier1Row(sgT, pawT, b, c)>> \o rest
           ELSE rest

\* sg_with_ticker.merge(paw_tickers, on='ticker_upper', how='inner')
RECURSIVE MergeLeft(_, _, _, _)
MergeLeft(sgT, pawT, left, right) ==
  IF left = <<>> THEN <<>>
  ELSE MergeRight(sgT, pawT, Head(left), right)
         \o MergeLeft(sgT, pawT, Tail(left), right)

tier1_ticker_matching(sgT, pawT) ==
  MergeLeft(sgT, pawT, SgWithTicker(sgT), PawTickers(pawT))

(***************************************************************************)
(* Tier 2: parent brand inheritance                                        *)
(***************************************************************************)
\* set(tier1['SAFEGRAPH_BRAND_ID'].unique())
BrandIds(t) == {t[k].SAFEGRAPH_BRAND_ID : k \in 1..Len(t)}

\* sg_with_parent: rows with a parent id that are not Tier-1 matched
SgWithParentAll(sgT, t1) ==
  RowsWhere(Len(sgT), [b \in 1..Len(sgT) |->
     /\ sgT[b].PARENT_SAFEGRAPH_BRAND_ID # NaN
     /\ sgT[b].PARENT_SAFEGRAPH_BRAND_ID # <<>>])
SgWithParent(sgT, t1) ==
  RowsWhere(Len(sgT), [b \in 1..Len(sgT) |->
     /\ sgT[b].PARENT_SAFEGRAPH_BRAND_ID # NaN
     /\ sgT[b].PARENT_SAFEGRAPH_BRAND_ID # <<>>
     /\ sgT[b].SAFEGRAPH_BRAND_ID \notin BrandIds(t1)])

\* tier1_parent_map[parent_id]: the Tier-1 row of brand parent_id
Tier1ParentMap(t1, parent_id) ==
  t1[CHOOSE k \in 1..Len(t1) : t1[k].SAFEGRAPH_BRAND_ID = parent_id]

Tier2Row(sgT, t1, b) ==
  LET parent_id == sgT[b].PARENT_SAFEGRAPH_BRAND_ID
      parent_match == Tier1ParentMap(t1, parent_id)
  IN  [SAFEGRAPH_BRAND_ID |-> sgT[b].SAFEGRAPH_BRAND_ID,
       BRAND_NAME         |-> sgT[b].BRAND_NAME,
       STOCK_SYMBOL       |-> sgT[b].STOCK_SYMBOL,
       rcid               |-> parent_match.rcid,
       company_name       |-> parent_match.company_name,
       match_tier         |-> 2,
       match_method       |-> "parent_inheritance",
       confidence         |-> 950,
       parent_brand_id    |-> parent_id]

\* the loop over sg_with_parent.iterrows()
RECURSIVE Tier2Records(_, _, _)
Tier2Records(sgT, t1, rows) ==
  IF rows = <<>> THEN <<>>
  ELSE LET b == Head(rows)
           rest == Tier2Records(sgT, t1, Tail(rows))
       IN  IF sgT[b].PARENT_SAFEGRAPH_BRAND_ID \in BrandIds(t1)
           THEN <<Tier2Row(sgT, t1, b)>> \o rest
           ELSE rest

tier2_parent_inheritance(sgT, t1) ==
  Tier2Records(sgT, t1, SgWithParent(sgT, t1))

(***************************************************************************)
(* Names and pair features                                                 *)
(***************************************************************************)
\* s.split(): the maximal runs of non-whitespace characters of s
RECURSIVE SplitFrom(_, _, _)
SplitFrom(s, cur, acc) ==
  IF s = <<>> THEN (IF cur = <<>> THEN acc ELSE Append(acc, cur))
  ELSE IF IsSpace(Head(s))
       THEN SplitFrom(Tail(s), <<>>, IF cur = <<>> THEN acc ELSE Append(acc, cur))
       ELSE SplitFrom(Tail(s), Append(cur, Head(s)), acc)

StrSplit(s) == SplitFrom(s, <<>>, <<>>)

\* ' '.join(words)
RECURSIVE StrJoin(_)
StrJoin(words) ==
  IF words = <<>> THEN <<>>
  ELSE IF Len(words) = 1 THEN words[1]
       ELSE words[1] \o <<" ">> \o StrJoin(Tail(words))

\* normalize_name of the tiered resolver: '' for a non-string, else trimmed
\* with every whitespace run collapsed (every character here is printable
\* and no name reaches 500 characters)
normalize_name(name) ==
  IF name = NaN THEN <<>> ELSE StrJoin(StrSplit(StrStrip(name)))

\* tokenize: the set of lower-cased words
tokenize(s) == LET w == StrSplit(StrLower(s)) IN {w[k] : k \in 1..Len(w)}

\* token_jaccard, in thousandths
token_jaccard(a, b) ==
  LET tokens_a == tokenize(a)
      tokens_b == tokenize(b)
  IN  IF tokens_a = {} \/ tokens_b = {} THEN 0
      ELSE (1000 * Cardinality(tokens_a \cap tokens_b))
             \div Cardinality(tokens_a \cup tokens_b)

\* a in b, for strings
IsSubstring(a, b) ==
  \E k \in 0..(Len(b) - Len(a)) : SubSeq(b, k + 1, k + Len(a)) = a

\* contains_match
contains_match(a, b) ==
  LET a_lower == StrLower(a)
      b_lower == StrLower(b)
  IN  IsSubstring(a_lower, b_lower) \/ IsSubstring(b_lower, a_lower)

\* jellyfish.jaro_winkler_similarity on the names of the tables, in
\* thousandths
JaroWinkler(a, b) ==
  LET A  == <<"a">>
      AB == <<"a", " ", "b">>
      B_ == <<"b">>
      BA == <<"b", " ", "a">>
  IN  CASE a = <<>> \/ b = <<>>   -> 0
        [] a = b                  -> 1000
        [] {a, b} = {A, AB}       -> 800
        [] {a, b} = {B_, BA}      -> 800
        [] {a, b} = {AB, BA}      -> 556
        [] OTHER                  -> 0

\* combined_score, in thousandths; contains is 0 or 1000
CombinedScore(cos_sim, jw_norm, tj, contains) ==
  (4 * cos_sim + 3 * jw_norm + 2 * tj + 1 * contains) \div 10

\* the feature values of one (brand name, company name) candidate
Candidate(brand_name, company_name, company_idx, cos_sim) ==
  LET jw_sim == JaroWinkler(StrLower(brand_name), StrLower(company_name))
      jw_norm == JaroWinkler(StrLower(normalize_name(brand_name)),
                             StrLower(normalize_name(company_name)))
      tj == token_jaccard(brand_name, company_name)
      contains == IF contains_match(brand_name, company_name) THEN 1000 ELSE 0
  IN  [company_idx       |-> company_idx,
       company_name      |-> company_name,
       cos_sim           |-> cos_sim,
       jaro_winkler      |-> jw_sim,
       jaro_winkler_norm |-> jw_norm,
       token_jaccard     |-> tj,
       contains_match    |-> contains,
       combined_score    |-> CombinedScore(cos_sim, jw_norm, tj, contains)]

(***************************************************************************)
(* Tier 3: semantic + Jaro-Winkler fuzzy matching                          *)
(***************************************************************************)
\* matched_brand_ids of main()
MatchedBrandIdsTier1Only(t1, t2) == BrandIds(t1)
MatchedBrandIds(t1, t2) == BrandIds(t1) \cup BrandIds(t2)

\* sg_unmatched: rows not matched so far whose cleaned name is not empty
SgUnmatched(sgT, matched) ==
  RowsWhere(Len(sgT), [b \in 1..Len(sgT) |->
     /\ sgT[b].SAFEGRAPH_BRAND_ID \notin matched
     /\ normalize_name(sgT[b].BRAND_NAME) # <<>>])

\* brand_names = sg_unmatched['brand_name_clean'].tolist()
BrandNames(sgT, rows) ==
  [k \in 1..Len(rows) |-> normalize_name(sgT[rows[k]].BRAND_NAME)]

\* a variant without the argsort step: the TOP_K largest in any order
TopKOrdersUnsorted(row) ==
  {t \in [1..TOP_K -> 1..Len(row)] :
     /\ \A k \in 1..TOP_K : \A l \in 1..TOP_K : k # l => t[k] # t[l]
     /\ \A e \in 1..Len(row) : \A k \in 1..TOP_K :
          (\A l \in 1..TOP_K : t[l] # e) => row[e] <= row[t[k]]}

\* the values np.argpartition(sim_row, -TOP_K)[-TOP_K:] followed by
\* argsort()[::-1] can take: TOP_K distinct indices of largest similarity in
\* non-increasing order; numpy fixes no order among equal similarities
TopKOrders(row) ==
  {t \in [1..TOP_K -> 1..Len(row)] :
     /\ \A k \in 1..TOP_K : \A l \in 1..TOP_K : k # l => t[k] # t[l]
     /\ \A k \in 1..TOP_K : \A l \in 1..TOP_K : k < l => row[t[k]] >= row[t[l]]
     /\ \A e \in 1..Len(row) : \A k \in 1..TOP_K :
          (\A l \in 1..TOP_K : t[l] # e) => row[e] <= row[t[k]]}

\* the loop over top_k_idx: best_match is None (a record without company)
\* or the first candidate whose combined score exceeds every earlier one
NoMatch == [company_idx |-> 0, combined_score |-> 0]

RECURSIVE BestMatch(_, _, _, _, _)
BestMatch(brand_name, company_names, row, top, best) ==
  IF top = <<>> THEN best
  ELSE LET company_idx == Head(top)
           cand == Candidate(brand_name, company_names[company_idx],
                             company_idx, row[company_idx])
       IN  BestMatch(brand_name, company_names, row, Tail(top),
                     IF cand.combined_score > best.combined_score
                     THEN cand ELSE best)

\* whether the best match passes the acceptance floor
AcceptedAlways(best) == best.company_idx # 0
Accepted(best) == best.company_idx # 0 /\ best.combined_score >= TIER3_THRESHOLD

\* the record appended to tier3_records
Tier3RowCosConfidence(sgT, pawT, b, best) ==
  [SAFEGRAPH_BRAND_ID |-> sgT[b].SAFEGRAPH_BRAND_ID,
   BRAND_NAME         |-> sgT[b].BRAND_NAME,
   STOCK_SYMBOL       |-> sgT[b].STOCK_SYMBOL,
   rcid               |-> pawT[best.company_idx].rcid,
   company_name       |-> pawT[best.company_idx].company_name,
   match_tier         |-> 3,
   match_method       |-> "semantic_fuzzy",
   confidence         |-> best.cos_sim,
   cos_sim            |-> best.cos_sim,
   jaro_winkler       |-> best.jaro_winkler,
   jaro_winkler_norm  |-> best.jaro_winkler_norm,
   token_jaccard      |-> best.token_jaccard,
   contains_match     |-> best.contains_match]

Tier3Row(sgT, pawT, b, best) ==
  [SAFEGRAPH_BRAND_ID |-> sgT[b].SAFEGRAPH_BRAND_ID,
   BRAND_NAME         |-> sgT[b].BRAND_NAME,
   STOCK_SYMBOL       |-> sgT[b].STOCK_SYMBOL,
   rcid               |-> pawT[best.company_idx].rcid,
   company_name       |-> pawT[best.company_idx].company_name,
   match_tier         |-> 3,
   match_method       |-> "semantic_fuzzy",
   confidence         |-> best.combined_score,
   cos_sim            |-> best.cos_sim,
   jaro_winkler       |-> best.jaro_winkler,
   jaro_winkler_norm  |-> best.jaro_winkler_norm,
   token_jaccard      |-> best.token_jaccard,
   contains_match     |-> best.contains_match]

(***************************************************************************)
(* Embedding cache and generator                                           *)
(***************************************************************************)
\* the vector the embedding service returns for a name
Embed(name) == [of |-> name]

\* a cache file that does not exist / that holds the array data
Absent == [exists |-> FALSE, data |-> <<>>]
FileOf(data) == [exists |-> TRUE, data |-> data]

\* load_cached_embeddings (tiered resolver): .npy first, then .json; a file
\* is used only if it holds expected_count vectors.  Absent stands for None.
load_cached_embeddings(files, expected_count) ==
  IF files.npy.exists /\ Len(files.npy.data) = expected_count
  THEN files.npy
  ELSE IF files.json.exists /\ Len(files.json.data) = expected_count
       THEN files.json
       ELSE Absent

\* the cache check at the top of generate_embeddings in the scripts that
\* keep one .json file per name list
LoadJsonCache(files, expected_count) ==
  IF files.json.exists /\ Len(files.json.data) = expected_count
  THEN files.json
  ELSE Absent

\* max_retries of the tiered resolver
max_retries == 5
\* calls per batch in singleton phase 1: the try body and its handler
SingletonAttempts == 2
\* range(3) of the hybrid matcher
HybridAttempts == 3
\* calls per batch in the Schoenmueller matcher: the try body and its handler
SchoenAttempts == 2

\* attempts per batch of each script
MaxAttempts(scr) ==
  CASE scr = "tiered"    -> max_retries
    [] scr = "singleton" -> SingletonAttempts
    [] scr = "hybrid"    -> HybridAttempts
    [] scr = "schoen"    -> SchoenAttempts

\* total_batches
TotalBatches(nms) == (Len(nms) + BATCH_SIZE - 1) \div BATCH_SIZE

\* names[i:i + BATCH_SIZE] of batch batch_num
Batch(nms, bn) ==
  LET lo == (bn - 1) * BATCH_SIZE + 1
      hi == IF bn * BATCH_SIZE < Len(nms) THEN bn * BATCH_SIZE ELSE Len(nms)
  IN  SubSeq(nms, lo, hi)

\* get_embeddings_batch: one vector per text of the batch, in order
get_embeddings_batch(texts) == [k \in 1..Len(texts) |-> Embed(texts[k])]

(***************************************************************************)
(* The input tables                                                        *)
(***************************************************************************)
\* SAFEGRAPH_BRAND_ID of row b (a string; ids are unique in the brand table)
BrandId(b) == <<ToString(b)>>

\* BRAND_NAME of row b
BrandNameOf(b) ==
  CASE b = 1 -> <<"a">>
    [] b = 2 -> <<"A", " ", "b">>
    [] b = 3 -> <<" ">>
    [] OTHER -> NaN

\* company_name of row c
CompanyNameOf(c) ==
  CASE c = 1 -> <<"a">>
    [] c = 2 -> <<"a", " ", "b">>
    [] c = 3 -> <<"b">>
    [] OTHER -> <<"B", " ", "a">>

\* STOCK_SYMBOL values of the brand table
BrandTickerValues ==
  {NaN, <<>>, NoneStr, <<" ">>, <<"w">>, <<" ", "W">>, <<"t">>}

\* ticker values of the company table
CompanyTickerValues ==
  {NaN, <<" ">>, NoneStr, <<"W">>, <<"w", " ">>, <<"T">>}

SgRow(b, sym, par) ==
  [SAFEGRAPH_BRAND_ID        |-> BrandId(b),
   BRAND_NAME                |-> BrandNameOf(b),
   STOCK_SYMBOL              |-> sym,
   PARENT_SAFEGRAPH_BRAND_ID |-> par]

PawRow(c, tick) ==
  [rcid         |-> 100 + c,
   company_name |-> CompanyNameOf(c),
   ticker       |-> tick]

VARIABLES
  sg,                \* the SafeGraph brand table (pd.read_parquet(SAFEGRAPH_BRANDS))
  paw,               \* the PAW company table (pd.read_parquet(PAW_COMPANIES))
  pc,                \* position in the running script
  tier1,             \* the Tier-1 match table
  tier2,             \* the Tier-2 match table
  matched_brand_ids, \* ids matched by Tier 1 or Tier 2
  sg_unmatched,      \* rows of sg that Tier 3 processes, in row order
  script,            \* the script whose generate_embeddings runs
  gen,               \* the name list of the running generate_embeddings call
  names,             \* argument names of the running call
  all_embeddings,    \* vectors collected so far by the running call
  batch_num,         \* 1-based number of the batch being embedded
  attempt,           \* 0-based number of the attempt on that batch
  cache,             \* the embedding cache files, per name list
  saved,             \* the name lists whose cache file this run has written
  ret,               \* what generate_embeddings returned, per name list
  brand_idx,         \* number of unmatched brands Tier 3 has scored
  sim_row,           \* cosine similarities of the brand scored last
  top_k_idx,         \* candidate companies of the brand scored last
  tier3,             \* the Tier-3 match table
  all_matches,       \* pd.concat([tier1, tier2, tier3])
  output_file,       \* brand_matches_tiered.parquet
  advan,             \* names of the Advan brand table, sorted by n_locations
  advan_brands,      \* brands returned by load_advan_brands_and_embeddings
  advan_embeddings,  \* embeddings returned by load_advan_brands_and_embeddings
  unique_poi_names,     \* pois['location_name'].unique().tolist()
  unique_company_names, \* paw_msa['company_name'].unique().tolist()
  top_indices,       \* rows of top_indices filled so far
  top_sims,          \* rows of top_sims filled so far
  candidates,        \* the candidate pair table of singleton phase 1
  df,                \* cos_sim of the candidate pairs phase 2 reads, by row
  n_samples,         \* --n_samples of phase 2
  sample_full,       \* <msa>_sample_full.parquet
  prev_sample_full,  \* the file as the previous run of phase 2 left it
  runs,              \* number of runs of phase 2 so far
  labeled_csv,       \* columbus_oh_sample_labeled.csv: (sample_id, label) rows
  cand_columns,      \* columns of <msa>_candidate_pairs.parquet
  v1_out,            \* files written by fix_labels_and_train.py
  v2_out,            \* files written by fix_labels_v2_and_train.py
  phase3_out,        \* files written by phase 3
  prediction,        \* how the last run of phase 4 went
  summary_json,      \* <msa>_match_summary.json
  log,               \* what the relabeling scripts printed about their fixes
  steps,             \* number of script runs so far
  poi_catalog,       \* every POI of the MSA, with the brand it carries
  pois,              \* unbranded_pois_by_msa/<msa>.parquet
  candidate_pairs,   \* <msa>_candidate_pairs.parquet
  brand_matches,     \* brand_matches_validated.parquet
  crosswalk_file,    \* <msa>_singleton_crosswalk.parquet
  name_arg,          \* a name handed to normalize_name
  normalized,        \* what successive calls of normalize_name made of it
  pair,              \* the two names of a candidate pair
  pair_features      \* the features computed for the pair

tierVars == <<sg, paw, tier1, tier2>>
genVars == <<script, gen, names, all_embeddings, batch_num, attempt, cache, saved, ret>>
t3Vars == <<matched_brand_ids, sg_unmatched, brand_idx, sim_row, top_k_idx, tier3,
            all_matches, output_file>>
advanVars == <<advan, advan_brands, advan_embeddings>>
candVars == <<unique_poi_names, unique_company_names, top_indices, top_sims,
              candidates>>
sampleVars == <<df, n_samples, sample_full, prev_sample_full, runs>>
nameVars == <<name_arg, normalized, pair, pair_features>>
mlVars == <<labeled_csv, cand_columns, v1_out, v2_out, phase3_out, prediction,
            summary_json, log, steps, poi_catalog, pois, candidate_pairs,
            brand_matches, crosswalk_file, nameVars>>
laterVars == <<advanVars, candVars, sampleVars, mlVars>>
vars == <<pc, tierVars, genVars, t3Vars, laterVars>>

\* the name lists that have a cache file
CacheFiles == {"brand", "company", "single"}

NoFiles == [npy |-> Absent, json |-> Absent]

(***************************************************************************)
(* main(): Tier 1 and Tier 2                                               *)
(***************************************************************************)
\* tier1 = tier1_ticker_matching(sg, paw)
Tier1 ==
  /\ pc = "tier1"
  /\ tier1' = tier1_ticker_matching(sg, paw)
  /\ pc' = "tier2"
  /\ UNCHANGED <<sg, paw, tier2, genVars, t3Vars, laterVars>>

\* tier2 = tier2_parent_inheritance(sg, tier1)
Tier2 ==
  /\ pc = "tier2"
  /\ tier2' = tier2_parent_inheritance(sg, tier1)
  /\ pc' = "tier3"
  /\ UNCHANGED <<sg, paw, tier1, genVars, t3Vars, laterVars>>

(***************************************************************************)
(* generate_embeddings                                                     *)
(***************************************************************************)
\* company_names = paw_all['company_name'].tolist()
CompanyNames(pawT) == [c \in 1..Len(pawT) |-> pawT[c].company_name]

\* generate_embeddings returns data: the statement after the call runs next
Return(data) ==
  /\ ret' = [ret EXCEPT ![gen] = FileOf(data)]
  /\ IF gen = "brand"
     THEN /\ gen' = "company"
          /\ names' = CompanyNames(paw)
          /\ pc' = "gen_check"
     ELSE /\ pc' = IF gen = "company" THEN "score" ELSE "returned"
          /\ UNCHANGED <<gen, names>>

\* the cache check of generate_embeddings
GenCheck ==
  /\ pc = "gen_check"
  /\ LET cached == IF script = "tiered"
                   THEN load_cached_embeddings(cache[gen], Len(names))
                   ELSE LoadJsonCache(cache[gen], Len(names))
     IN  IF cached.exists
         THEN /\ Return(cached.data)
              /\ UNCHANGED <<all_embeddings, batch_num, attempt>>
         ELSE /\ all_embeddings' = <<>>
              /\ batch_num' = 1
              /\ attempt' = 0
              /\ pc' = IF Len(names) = 0 THEN "gen_save" ELSE "gen_batch"
              /\ UNCHANGED <<gen, names, ret>>
  /\ UNCHANGED <<script, cache, saved, tierVars, t3Vars, laterVars>>

\* an attempt on the current batch succeeds
EmbedOk ==
  /\ pc = "gen_batch"
  /\ all_embeddings' =
       all_embeddings \o get_embeddings_batch(Batch(names, batch_num))
  /\ IF batch_num < TotalBatches(names)
     THEN /\ batch_num' = batch_num + 1
          /\ attempt' = 0
          /\ pc' = "gen_batch"
     ELSE /\ pc' = "gen_save"
          /\ UNCHANGED <<batch_num, attempt>>
  /\ UNCHANGED <<script, gen, names, cache, saved, ret, tierVars, t3Vars, laterVars>>

\* a variant that gives up on a failing batch and fills it with zero vectors
EmbedFailZeros ==
  /\ pc = "gen_batch"
  /\ IF attempt < MaxAttempts(script) - 1
     THEN /\ attempt' = attempt + 1
          /\ UNCHANGED <<pc, all_embeddings, batch_num>>
     ELSE /\ all_embeddings' = all_embeddings \o
               [k \in 1..Len(Batch(names, batch_num)) |-> Embed(<<>>)]
          /\ IF batch_num < TotalBatches(names)
             THEN /\ batch_num' = batch_num + 1
                  /\ attempt' = 0
                  /\ pc' = "gen_batch"
             ELSE /\ pc' = "gen_save"
                  /\ UNCHANGED <<batch_num, attempt>>
  /\ UNCHANGED <<script, gen, names, cache, saved, ret, tierVars, t3Vars, laterVars>>

\* a variant that saves the vectors collected so far before it re-raises
EmbedFailSavesPartial ==
  /\ pc = "gen_batch"
  /\ IF attempt < MaxAttempts(script) - 1
     THEN /\ attempt' = attempt + 1
          /\ pc' = "gen_batch"
          /\ UNCHANGED <<cache, saved>>
     ELSE /\ pc' = "raised"
          /\ cache' = [cache EXCEPT ![gen] =
                         [@ EXCEPT !.npy = FileOf(all_embeddings)]]
          /\ saved' = saved \cup {gen}
          /\ UNCHANGED attempt
  /\ UNCHANGED <<script, gen, names, all_embeddings, batch_num, ret, tierVars, t3Vars, laterVars>>

\* a variant whose failing attempt has already appended the first vector of
\* the batch when the exception arrives
EmbedFailKeepsPartial ==
  /\ pc = "gen_batch"
  /\ IF attempt < MaxAttempts(script) - 1
     THEN /\ attempt' = attempt + 1
          /\ pc' = "gen_batch"
          /\ all_embeddings' =
               Append(all_embeddings, Embed(Batch(names, batch_num)[1]))
     ELSE /\ pc' = "raised"
          /\ UNCHANGED <<attempt, all_embeddings>>
  /\ UNCHANGED <<script, gen, names, batch_num, cache, saved, ret,
                 tierVars, t3Vars, laterVars>>

\* an attempt on the current batch raises: retry, or re-raise on the last
\* attempt; nothing catches the exception, so the script ends
EmbedFail ==
  /\ pc = "gen_batch"
  /\ IF attempt < MaxAttempts(script) - 1
     THEN /\ attempt' = attempt + 1
          /\ pc' = "gen_batch"
     ELSE /\ pc' = "raised"
          /\ UNCHANGED attempt
  /\ UNCHANGED <<script, gen, names, all_embeddings, batch_num, cache, saved, ret,
                 tierVars, t3Vars, laterVars>>

\* np.save / json.dump of the collected vectors, then return
GenSave ==
  /\ pc = "gen_save"
  /\ cache' = [cache EXCEPT ![gen] =
                 IF script = "tiered"
                 THEN [@ EXCEPT !.npy = FileOf(all_embeddings)]
                 ELSE [@ EXCEPT !.json = FileOf(all_embeddings)]]
  /\ saved' = saved \cup {gen}
  /\ Return(all_embeddings)
  /\ UNCHANGED <<script, all_embeddings, batch_num, attempt, tierVars, t3Vars, laterVars>>

(***************************************************************************)
(* load_advan_brands_and_embeddings (Schoenmueller matcher)                *)
(***************************************************************************)
Min(a, b) == IF a <= b THEN a ELSE b

\* brands.head(n) / embeddings[:n]
Head_n(seq, n) == SubSeq(seq, 1, Min(n, Len(seq)))

\* open(BRAND_EMBEDDINGS_CACHE) raises when the file is missing; on a count
\* mismatch both the brands and the embeddings are cut to the shorter length;
\* main() then calls generate_schoenmueller_embeddings
LoadAdvan ==
  /\ pc = "load_advan"
  /\ IF ~cache["brand"].json.exists
     THEN /\ pc' = "crashed"
          /\ UNCHANGED <<advan_brands, advan_embeddings>>
     ELSE LET embeddings == cache["brand"].json.data
              min_len == Min(Len(advan), Len(embeddings))
          IN  /\ IF Len(advan) # Len(embeddings)
                 THEN /\ advan_brands' = Head_n(advan, min_len)
                      /\ advan_embeddings' = FileOf(Head_n(embeddings, min_len))
                 ELSE /\ advan_brands' = advan
                      /\ advan_embeddings' = FileOf(embeddings)
              /\ pc' = "gen_check"
  /\ UNCHANGED <<advan, candVars, sampleVars, mlVars, tierVars, genVars, t3Vars>>

(***************************************************************************)
(* Specification of Tier 1 and Tier 2 over wide input tables               *)
(***************************************************************************)
GenIdle ==
  /\ script = "tiered"
  /\ gen = "none"
  /\ names = <<>>
  /\ all_embeddings = <<>>
  /\ batch_num = 0
  /\ attempt = 0
  /\ saved = {}
  /\ ret = [f \in CacheFiles |-> Absent]

Tier3Idle ==
  /\ matched_brand_ids = {}
  /\ sg_unmatched = <<>>
  /\ brand_idx = 0
  /\ sim_row = <<>>
  /\ top_k_idx = <<>>
  /\ tier3 = <<>>
  /\ all_matches = <<>>
  /\ output_file = Absent

AdvanIdle ==
  /\ advan = <<>>
  /\ advan_brands = <<>>
  /\ advan_embeddings = Absent

\* the scripts other than the one a specification runs have not started
CandIdle ==
  /\ unique_poi_names = <<>>
  /\ unique_company_names = <<>>
  /\ top_indices = <<>>
  /\ top_sims = <<>>
  /\ candidates = <<>>

SampleIdle ==
  /\ df = <<>>
  /\ n_samples = 0
  /\ sample_full = Absent
  /\ prev_sample_full = Absent
  /\ runs = 0

\* no script of the classifier stages has run
NoRun == [status |-> "none"]
NoV1 == [corrected |-> Absent, model |-> Absent, predictions |-> Absent]
NoPhase3 == [model |-> Absent, coefficients |-> Absent, metrics |-> Absent]

\* no name has been normalized and no pair has been scored
NameIdle ==
  /\ name_arg = <<>>
  /\ normalized = <<>>
  /\ pair = [location_name |-> <<>>, company_name |-> <<>>]
  /\ pair_features = NoRun

MlIdle ==
  /\ labeled_csv = <<>>
  /\ cand_columns = {}
  /\ v1_out = NoV1
  /\ v2_out = NoV1
  /\ phase3_out = NoPhase3
  /\ prediction = NoRun
  /\ summary_json = Absent
  /\ log = <<>>
  /\ steps = 0
  /\ poi_catalog = <<>>
  /\ pois = <<>>
  /\ candidate_pairs = Absent
  /\ brand_matches = Absent
  /\ crosswalk_file = Absent
  /\ NameIdle

LaterIdle ==
  /\ AdvanIdle
  /\ CandIdle
  /\ SampleIdle
  /\ MlIdle

\* tables with every combination of ticker values, and no parent brands
InitTickers ==
  /\ \E sym \in [1..TickerBrands -> BrandTickerValues] :
       sg = [b \in 1..TickerBrands |-> SgRow(b, sym[b], NaN)]
  /\ \E tick \in [1..TickerCompanies -> CompanyTickerValues] :
       paw = [c \in 1..TickerCompanies |-> PawRow(c, tick[c])]

\* tables with every combination of parent brands
InitParents ==
  /\ \E sym \in [1..NB -> {NaN, <<"w">>, <<"t">>}] :
     \E par \in [1..NB -> {NaN, <<>>} \cup {BrandId(b) : b \in 1..NB}] :
       sg = [b \in 1..NB |-> SgRow(b, sym[b], par[b])]
  /\ paw = [c \in 1..NC |->
              PawRow(c, IF c = 1 THEN <<"W">> ELSE IF c = 2 THEN <<"T">> ELSE NaN)]

TierInit ==
  /\ InitTickers \/ InitParents
  /\ pc = "tier1"
  /\ tier1 = <<>>
  /\ tier2 = <<>>
  /\ GenIdle
  /\ cache = [f \in CacheFiles |-> NoFiles]
  /\ Tier3Idle
  /\ LaterIdle

TierNext == Tier1 \/ Tier2

TierSpec == TierInit /\ [][TierNext]_vars

(***************************************************************************)
(* Specification of generate_embeddings in the three scripts               *)
(***************************************************************************)
\* the names handed to a stand-alone call
EmbedNames == {<<"a">>, <<"b">>}

NameLists == UNION {[1..n -> EmbedNames] : n \in 0..MaxNames}

\* cache files left by earlier runs over any name list
OldFiles == {Absent} \cup {FileOf(get_embeddings_batch(l)) : l \in NameLists}

EmbedInit ==
  /\ script \in {"tiered", "singleton", "hybrid", "schoen"}
  /\ gen = "single"
  /\ names \in NameLists
  /\ IF script = "schoen"
     THEN /\ advan \in NameLists
          /\ \E j \in OldFiles :
               cache = [f \in CacheFiles |->
                          IF f = "brand" THEN [npy |-> Absent, json |-> j]
                          ELSE NoFiles]
          /\ pc = "load_advan"
     ELSE /\ advan = <<>>
          /\ \E n \in OldFiles : \E j \in OldFiles :
               /\ script # "tiered" => n = Absent
               /\ cache = [f \in CacheFiles |->
                             IF f = "single" THEN [npy |-> n, json |-> j]
                             ELSE NoFiles]
          /\ pc = "gen_check"
  /\ advan_brands = <<>>
  /\ advan_embeddings = Absent
  /\ CandIdle
  /\ SampleIdle
  /\ MlIdle
  /\ all_embeddings = <<>>
  /\ batch_num = 0
  /\ attempt = 0
  /\ saved = {}
  /\ ret = [f \in CacheFiles |-> Absent]
  /\ sg = <<>>
  /\ paw = <<>>
  /\ tier1 = <<>>
  /\ tier2 = <<>>
  /\ Tier3Idle

EmbedNext == LoadAdvan \/ GenCheck \/ EmbedOk \/ EmbedFail \/ GenSave

EmbedSpec == EmbedInit /\ [][EmbedNext]_vars

(***************************************************************************)
(* main(): Tier 3 and the combined output                                  *)
(***************************************************************************)
\* cosine similarities a brand can have to company c, in thousandths: a low
\* and a high value, equal for the first two companies and distinct for the
\* others
CosValues(c) == IF c <= 2 THEN {375, 1000} ELSE {375 + c, 1000 - c}

\* the similarity rows of a table of n companies
RECURSIVE SimRows(_)
SimRows(n) ==
  IF n = 0 THEN {<<>>}
  ELSE UNION {{Append(row, v) : v \in CosValues(n)} : row \in SimRows(n - 1)}

\* matched_brand_ids, then tier3_fuzzy_matching up to its first
\* generate_embeddings call
Tier3Begin ==
  /\ pc = "tier3"
  /\ matched_brand_ids' = MatchedBrandIds(tier1, tier2)
  /\ sg_unmatched' = SgUnmatched(sg, matched_brand_ids')
  /\ gen' = "brand"
  /\ names' = BrandNames(sg, sg_unmatched')
  /\ pc' = "gen_check"
  /\ UNCHANGED <<laterVars, tierVars, script, all_embeddings, batch_num, attempt, cache, saved,
                 ret, brand_idx, sim_row, top_k_idx, tier3, all_matches, output_file>>

\* np.linalg.norm(brand_embeddings, axis=1) raises on an empty (one
\* dimensional) array, np.argpartition raises when there are fewer than
\* TOP_K companies; nothing catches either
Tier3Crash ==
  /\ pc = "score"
  /\ \/ Len(ret["brand"].data) = 0
     \/ (brand_idx < Len(sg_unmatched) /\ TOP_K > Len(paw))
  /\ pc' = "crashed"
  /\ UNCHANGED <<tierVars, genVars, t3Vars, laterVars>>

\* one iteration of the loop over the similarity rows
Score ==
  /\ pc = "score"
  /\ Len(ret["brand"].data) # 0
  /\ brand_idx < Len(sg_unmatched)
  /\ TOP_K <= Len(paw)
  /\ \E row \in SimRows(Len(paw)) : \E top \in TopKOrders(row) :
       LET b == sg_unmatched[brand_idx + 1]
           brand_name == BrandNames(sg, sg_unmatched)[brand_idx + 1]
           best == BestMatch(brand_name, CompanyNames(paw), row, top, NoMatch)
       IN  /\ sim_row' = row
           /\ top_k_idx' = top
           /\ tier3' = IF Accepted(best)
                       THEN Append(tier3, Tier3Row(sg, paw, b, best))
                       ELSE tier3
  /\ brand_idx' = brand_idx + 1
  /\ UNCHANGED <<pc, laterVars, tierVars, genVars, matched_brand_ids, sg_unmatched, all_matches,
                 output_file>>

\* all_matches = pd.concat([tier1, tier2, tier3]); all_matches.to_parquet
Combine ==
  /\ pc = "score"
  /\ Len(ret["brand"].data) # 0
  /\ brand_idx = Len(sg_unmatched)
  /\ all_matches' = tier1 \o tier2 \o tier3
  /\ output_file' = FileOf(all_matches')
  /\ pc' = "done"
  /\ UNCHANGED <<laterVars, tierVars, genVars, matched_brand_ids, sg_unmatched, brand_idx,
                 sim_row, top_k_idx, tier3>>

(***************************************************************************)
(* Specification of main() of the tiered resolver                          *)
(***************************************************************************)
Init ==
  /\ \E sym \in [1..NB -> {NaN, <<"w">>}] :
     \E par \in [1..NB -> BOOLEAN] :
       sg = [b \in 1..NB |->
               SgRow(b, sym[b],
                     IF par[b] THEN BrandId(IF b = 1 THEN NB ELSE b - 1) ELSE NaN)]
  /\ paw = [c \in 1..NC |-> PawRow(c, IF c = 1 THEN <<"W">> ELSE NaN)]
  /\ pc = "tier1"
  /\ tier1 = <<>>
  /\ tier2 = <<>>
  /\ GenIdle
  /\ \E j \in {Absent, FileOf(get_embeddings_batch(CompanyNames(paw)))} :
       cache = [f \in CacheFiles |->
                  IF f = "company" THEN [npy |-> Absent, json |-> j] ELSE NoFiles]
  /\ Tier3Idle
  /\ LaterIdle

Next ==
  \/ Tier1
  \/ Tier2
  \/ Tier3Begin
  \/ GenCheck
  \/ EmbedOk
  \/ EmbedFail
  \/ GenSave
  \/ Tier3Crash
  \/ Score
  \/ Combine

Spec == Init /\ [][Next]_vars

(***************************************************************************)
(* Singleton phase 1: find_top_k_candidates and compute_features           *)
(***************************************************************************)
\* the unique location names and company names of one MSA (distinct for the
\* table sizes used here)
PoiNameOf(p) ==
  CASE p = 1 -> <<"a">>
    [] p = 2 -> <<"b", " ", "a">>
    [] OTHER -> <<"a", " ", "b">>

MsaCompanyNameOf(c) ==
  CASE c = 1 -> <<"a">>
    [] c = 2 -> <<"a", " ", "b">>
    [] c = 3 -> <<"b">>
    [] OTHER -> <<"b", " ", "a">>

\* top_sims[idx] = sim_row[top_k_idx]
SimsOf(row, top) == [k \in 1..Len(top) |-> row[top[k]]]

\* one iteration of the loop over the rows of similarities
TopKRow ==
  /\ pc = "topk"
  /\ Len(unique_poi_names) # 0
  /\ Len(unique_company_names) # 0
  /\ TOP_K <= Len(unique_company_names)
  /\ Len(top_indices) < Len(unique_poi_names)
  /\ \E row \in SimRows(Len(unique_company_names)) : \E top \in TopKOrders(row) :
       /\ top_indices' = Append(top_indices, top)
       /\ top_sims' = Append(top_sims, SimsOf(row, top))
  /\ UNCHANGED <<pc, unique_poi_names, unique_company_names, candidates,
                 advanVars, sampleVars, mlVars, tierVars, genVars, t3Vars>>

\* np.linalg.norm(axis=1) raises on the one-dimensional array that an empty
\* name list yields, np.argpartition raises when k exceeds the number of
\* companies
TopKCrash ==
  /\ pc = "topk"
  /\ \/ Len(unique_poi_names) = 0
     \/ Len(unique_company_names) = 0
     \/ TOP_K > Len(unique_company_names)
  /\ pc' = "crashed"
  /\ UNCHANGED <<candVars, advanVars, sampleVars, mlVars, tierVars, genVars, t3Vars>>

\* the record compute_features appends for a POI name and a rank (indices
\* count from 1 here)
FeatureRecord(poi_names, company_names, ti, ts, poi_idx, rank) ==
  LET company_idx == ti[poi_idx][rank]
      poi_name == poi_names[poi_idx]
      company_name == company_names[company_idx]
  IN  [poi_name_idx   |-> poi_idx,
       company_idx    |-> company_idx,
       location_name  |-> poi_name,
       company_name   |-> company_name,
       cos_sim        |-> ts[poi_idx][rank],
       jaro_winkler   |-> JaroWinkler(poi_name, company_name),
       token_jaccard  |-> token_jaccard(poi_name, company_name),
       contains_match |-> contains_match(poi_name, company_name)]

\* compute_features: for every POI name in order, one record per rank
compute_features(poi_names, company_names, ti, ts) ==
  [n \in 1..(Len(poi_names) * TOP_K) |->
     FeatureRecord(poi_names, company_names, ti, ts,
                   ((n - 1) \div TOP_K) + 1, ((n - 1) % TOP_K) + 1)]

\* find_top_k_candidates returns; candidates = compute_features(...)
ComputeFeatures ==
  /\ pc = "topk"
  /\ Len(unique_poi_names) # 0
  /\ Len(unique_company_names) # 0
  /\ Len(top_indices) = Len(unique_poi_names)
  /\ candidates' = compute_features(unique_poi_names, unique_company_names,
                                    top_indices, top_sims)
  /\ pc' = "cand_done"
  /\ UNCHANGED <<unique_poi_names, unique_company_names, top_indices, top_sims,
                 advanVars, sampleVars, mlVars, tierVars, genVars, t3Vars>>

CandInit ==
  /\ \E n_pois \in 0..NP : unique_poi_names = [p \in 1..n_pois |-> PoiNameOf(p)]
  /\ \E n_comp \in 0..NC :
       unique_company_names = [c \in 1..n_comp |-> MsaCompanyNameOf(c)]
  /\ top_indices = <<>>
  /\ top_sims = <<>>
  /\ candidates = <<>>
  /\ pc = "topk"
  /\ sg = <<>>
  /\ paw = <<>>
  /\ tier1 = <<>>
  /\ tier2 = <<>>
  /\ GenIdle
  /\ cache = [f \in CacheFiles |-> NoFiles]
  /\ Tier3Idle
  /\ AdvanIdle
  /\ SampleIdle
  /\ MlIdle

CandNext == TopKRow \/ TopKCrash \/ ComputeFeatures

CandSpec == CandInit /\ [][CandNext]_vars

(***************************************************************************)
(* Singleton phase 2: stratified_sample and main                           *)
(***************************************************************************)
\* (name, low, high, proportion) of each stratum; bounds in thousandths,
\* proportions in percent
strata ==
  <<[name |-> "high",        low |-> 900, high |-> 1010, proportion |-> 25],
    [name |-> "medium_high", low |-> 800, high |-> 900,  proportion |-> 30],
    [name |-> "medium",      low |-> 700, high |-> 800,  proportion |-> 25],
    [name |-> "low",         low |-> 600, high |-> 700,  proportion |-> 15],
    [name |-> "very_low",    low |-> 0,   high |-> 600,  proportion |-> 5]>>

\* the random_state of the three sample() calls
RandomStatesAny == {<<a, b, c>> : a \in 0..2, b \in 0..2, c \in 0..2}
RandomStates == {<<42, 43, 44>>}

\* labels of the rows of frame (a sequence of row labels of d) with
\* low <= cos_sim < high, in row order
BandRows(d, frame, low, high) ==
  LET keep == [k \in 1..Len(frame) |-> d[frame[k]] >= low /\ d[frame[k]] < high]
      pos == RowsWhere(Len(frame), keep)
  IN  [k \in 1..Len(pos) |-> frame[pos[k]]]

\* every row label of d
AllRows(d) == [k \in 1..Len(d) |-> k]

\* the order in which a generator seeded with random_state draws the
\* positions of a frame of m rows: a permutation fixed by (random_state, m)
RandomOrder(random_state, m) ==
  [k \in 1..m |-> ((k - 1 + random_state) % m) + 1]

\* frame.sample(n=n, random_state=random_state)
Sample(frame, n, random_state) ==
  [k \in 1..n |-> frame[RandomOrder(random_state, Len(frame))[k]]]

\* int(n_samples * proportion)
NStratum(n, proportion) == (n * proportion) \div 100

\* the rows sampled from strata k.., concatenated; a row keeps the label it
\* has in d and records its stratum
RECURSIVE StratumSamples(_, _, _, _)
StratumSamples(d, n, random_state, k) ==
  IF k > Len(strata) THEN <<>>
  ELSE LET stratum_df == BandRows(d, AllRows(d), strata[k].low, strata[k].high)
           n_stratum == NStratum(n, strata[k].proportion)
           n_actual == Min(n_stratum, Len(stratum_df))
           sampled == Sample(stratum_df, n_actual, random_state)
       IN  [i \in 1..n_actual |->
              [pair |-> sampled[i], cos_sim |-> d[sampled[i]],
               stratum |-> strata[k].name]]
           \o StratumSamples(d, n, random_state, k + 1)

\* samples stays empty: every stratum of d is empty and pd.concat raises
NoSamples(d) ==
  \A k \in 1..Len(strata) :
    BandRows(d, AllRows(d), strata[k].low, strata[k].high) = <<>>

\* stratified_sample; result.index is 1..Len(result) after ignore_index
\* (labels count from 1 here), and already_sampled is taken from it
stratified_sample(d, n, seeds) ==
  LET result == StratumSamples(d, n, seeds[1], 1)
      shortfall == n - Len(result)
      already_sampled == 1..Len(result)
      medium_high == BandRows(d, AllRows(d), 800, 900)
      keep == [k \in 1..Len(medium_high) |-> medium_high[k] \notin already_sampled]
      pos == RowsWhere(Len(medium_high), keep)
      available == [k \in 1..Len(pos) |-> medium_high[pos[k]]]
      extra == Sample(available, shortfall, seeds[2])
  IN  IF Len(result) < n /\ Len(available) >= shortfall
      THEN result \o [i \in 1..shortfall |->
                        [pair |-> extra[i], cos_sim |-> d[extra[i]],
                         stratum |-> "medium_high_extra"]]
      ELSE result

\* main(): the sample shuffled with random_state 44 and numbered from 1
SampleTable(d, n, seeds) ==
  LET result == stratified_sample(d, n, seeds)
      shuffled == Sample(result, Len(result), seeds[3])
  IN  [i \in 1..Len(shuffled) |->
         [sample_id |-> i, pair |-> shuffled[i].pair,
          cos_sim |-> shuffled[i].cos_sim, stratum |-> shuffled[i].stratum]]

\* one run of phase 2 on the candidate pool
SampleMain ==
  /\ pc = "sample"
  /\ IF NoSamples(df)
     THEN /\ pc' = "crashed"
          /\ UNCHANGED <<sample_full, prev_sample_full, runs>>
     ELSE /\ \E seeds \in RandomStates :
               sample_full' = FileOf(SampleTable(df, n_samples, seeds))
          /\ prev_sample_full' = sample_full
          /\ runs' = runs + 1
          /\ pc' = IF runs' < 2 THEN "sample" ELSE "sampled"
  /\ UNCHANGED <<df, n_samples, advanVars, candVars, mlVars, tierVars, genVars,
                 t3Vars>>

\* cosine similarities of the pool: one value inside each stratum, the
\* boundaries 0.90 and 1.0, and a negative one
PoolCosValues == {-100, 300, 650, 750, 850, 900, 1000}

SampleInit ==
  /\ \E n \in 0..MaxPairs : df \in [1..n -> PoolCosValues]
  /\ n_samples \in 1..MaxSamples
  /\ sample_full = Absent
  /\ prev_sample_full = Absent
  /\ runs = 0
  /\ pc = "sample"
  /\ sg = <<>>
  /\ paw = <<>>
  /\ tier1 = <<>>
  /\ tier2 = <<>>
  /\ GenIdle
  /\ cache = [f \in CacheFiles |-> NoFiles]
  /\ Tier3Idle
  /\ AdvanIdle
  /\ CandIdle
  /\ MlIdle

SampleNext == SampleMain

SampleSpec == SampleInit /\ [][SampleNext]_vars

(***************************************************************************)
(* normalize_name and normalized_jaro_winkler of the singleton scripts     *)
(***************************************************************************)
\* one item of a regular expression: a whitespace class or a literal
\* character, taken once ("1"), optionally ("?") or any number of times ("*")
Lit(ch) == [cls |-> "lit", ch |-> ch, q |-> "1"]
Opt(ch) == [cls |-> "lit", ch |-> ch, q |-> "?"]
Ws == [cls |-> "ws", ch |-> " ", q |-> "1"]
WsStar == [cls |-> "ws", ch |-> " ", q |-> "*"]

Word(w) == [k \in 1..Len(w) |-> Lit(w[k])]

ItemMatches(item, c) == IF item.cls = "ws" THEN IsSpace(c) ELSE c = item.ch

\* the positions at which a match of items k.. of pat that starts at pos
\* can end (the position after its last character)
RECURSIVE MatchEnds(_, _, _, _)
MatchEnds(pat, k, s, pos) ==
  IF k > Len(pat) THEN {pos}
  ELSE LET item == pat[k]
           here == pos <= Len(s) /\ ItemMatches(item, s[pos])
       IN  CASE item.q = "1" ->
                  IF here THEN MatchEnds(pat, k + 1, s, pos + 1) ELSE {}
             [] item.q = "?" ->
                  MatchEnds(pat, k + 1, s, pos)
                    \cup (IF here THEN MatchEnds(pat, k + 1, s, pos + 1) ELSE {})
             [] item.q = "*" ->
                  MatchEnds(pat, k + 1, s, pos)
                    \cup (IF here THEN MatchEnds(pat, k, s, pos + 1) ELSE {})

MaxOf(S) == CHOOSE x \in S : \A y \in S : y <= x
MinOf(S) == CHOOSE x \in S : \A y \in S : x <= y

\* re.sub(pat + '$', '', s): the leftmost match that reaches the end of s
SubAtEnd(s, pat) ==
  LET starts == {i \in 1..Len(s) : (Len(s) + 1) \in MatchEnds(pat, 1, s, i)}
  IN  IF starts = {} THEN s ELSE SubSeq(s, 1, MinOf(starts) - 1)

\* re.sub('^' + pat, '', s), every quantifier greedy
SubAtStart(s, pat) ==
  LET ends == MatchEnds(pat, 1, s, 1)
  IN  IF ends = {} THEN s ELSE SubSeq(s, MaxOf(ends), Len(s))

\* re.sub(pat, repl, s): the matches from left to right, none overlapping;
\* the quantifiers of the title patterns are greedy and their matches from
\* one start differ only in the optional last dot, so the longest is taken
RECURSIVE SubFrom(_, _, _, _)
SubFrom(s, pat, repl, pos) ==
  IF pos > Len(s) THEN <<>>
  ELSE LET ends == MatchEnds(pat, 1, s, pos)
       IN  IF ends = {} THEN <<s[pos]>> \o SubFrom(s, pat, repl, pos + 1)
           ELSE repl \o SubFrom(s, pat, repl, MaxOf(ends))

SubAll(s, pat, repl) == SubFrom(s, pat, repl, 1)

\* r'\s+<word>\.?$' and r'\s+<word>$'
SuffixDot(w) == <<Ws, WsStar>> \o Word(w) \o <<Opt(".")>>
SuffixWord(w) == <<Ws, WsStar>> \o Word(w)

\* suffixes, without the last entry r'^the\s+'
suffixes ==
  <<SuffixDot(<<"i", "n", "c">>), SuffixDot(<<"l", "l", "c">>),
    SuffixDot(<<"c", "o", "r", "p">>), SuffixDot(<<"c", "o">>),
    SuffixDot(<<"l", "t", "d">>), SuffixDot(<<"l", "l", "p">>),
    SuffixDot(<<"p", "l", "l", "c">>), SuffixDot(<<"p", "c">>),
    SuffixWord(<<"i", "n", "c", "o", "r", "p", "o", "r", "a", "t", "e", "d">>),
    SuffixWord(<<"c", "o", "r", "p", "o", "r", "a", "t", "i", "o", "n">>),
    SuffixWord(<<"c", "o", "m", "p", "a", "n", "y">>),
    SuffixWord(<<"l", "i", "m", "i", "t", "e", "d">>),
    SuffixWord(<<"t", "h", "e">>)>>

\* r'^the\s+'
the_prefix == Word(<<"t", "h", "e">>) \o <<Ws, WsStar>>

\* r'<a>\s*\.?\s*<b>' followed by the rest of a title pattern
Spaced(a) == <<Lit(a), WsStar, Opt("."), WsStar>>

title_patterns ==
  <<[pattern |-> Spaced("d") \o Spaced("d") \o <<Lit("s"), Opt(".")>>,
     replacement |-> <<"d", "d", "s">>],
    [pattern |-> Spaced("m") \o <<Lit("d"), Opt(".")>>,
     replacement |-> <<"m", "d">>],
    [pattern |-> Spaced("o") \o <<Lit("d"), Opt(".")>>,
     replacement |-> <<"o", "d">>],
    [pattern |-> Spaced("d") \o <<Lit("o"), Opt(".")>>,
     replacement |-> <<"d", "o">>],
    [pattern |-> <<Lit("p"), Lit("h"), WsStar, Opt("."), WsStar, Lit("d"), Opt(".")>>,
     replacement |-> <<"p", "h", "d">>]>>

\* the loop over suffixes
RECURSIVE RemoveSuffixes(_, _)
RemoveSuffixes(s, k) ==
  IF k > Len(suffixes) THEN SubAtStart(s, the_prefix)
  ELSE RemoveSuffixes(SubAtEnd(s, suffixes[k]), k + 1)

\* the loop over title_patterns
RECURSIVE NormalizeTitles(_, _)
NormalizeTitles(s, k) ==
  IF k > Len(title_patterns) THEN s
  ELSE NormalizeTitles(SubAll(s, title_patterns[k].pattern,
                              title_patterns[k].replacement), k + 1)

\* [^\w\s] among the characters of the names
IsPunctuation(c) == c \in {".", ",", "-", "&"}

\* re.sub(r'[^\w\s]', ' ', s)
RemovePunctuation(s) == [i \in 1..Len(s) |-> IF IsPunctuation(s[i]) THEN " " ELSE s[i]]

\* normalize_name of phase 4 and of fix_labels_v2_and_train.py; NaN stands
\* for None here
normalize_name_phase4(name) ==
  IF name = NaN \/ name = <<>> THEN <<>>
  ELSE StrStrip(StrJoin(StrSplit(RemovePunctuation(
         NormalizeTitles(RemoveSuffixes(StrLower(name), 1), 1)))))

\* normalized_jaro_winkler, in thousandths
normalized_jaro_winkler(a, b) ==
  LET a_norm == normalize_name_phase4(a)
      b_norm == normalize_name_phase4(b)
  IN  IF a_norm = <<>> \/ b_norm = <<>> THEN 0 ELSE JaroWinkler(a_norm, b_norm)

(***************************************************************************)
(* Relabeling, training (phase 3) and prediction (phase 4)                 *)
(***************************************************************************)
\* the sample ids of the relabeling lists that occur in the labeled samples
\* used here: FALSE_POSITIVES of fix_labels_and_train.py, FALSE_POSITIVES
\* and FALSE_NEGATIVES_TO_FIX of fix_labels_v2_and_train.py
FALSE_POSITIVES_V1 == {4, 522}
FALSE_POSITIVES == {4}
FALSE_NEGATIVES_TO_FIX == {208, 522}

\* feature lists of the training scripts
feature_cols_a == <<"cos_sim", "jaro_winkler", "token_jaccard", "contains_match">>
feature_cols_b ==
  <<"cos_sim", "jaro_winkler", "jaro_winkler_norm", "token_jaccard", "contains_match">>

\* a variant that sets the label of every listed sample id to the other value
RelabelToggle(rows, ids, from, to) ==
  [i \in 1..Len(rows) |->
     IF rows[i].sample_id \in ids
     THEN [rows[i] EXCEPT !.label = IF @ = from THEN to ELSE from]
     ELSE rows[i]]

\* the loop that sets the label of the listed sample ids from one value to
\* the other, and the number of fixes it counts
Relabel(rows, ids, from, to) ==
  [i \in 1..Len(rows) |->
     IF rows[i].sample_id \in ids /\ rows[i].label = from
     THEN [rows[i] EXCEPT !.label = to] ELSE rows[i]]

NumFixed(rows, ids, from) ==
  Cardinality({i \in 1..Len(rows) : rows[i].sample_id \in ids /\ rows[i].label = from})

\* LogisticRegression.fit raises unless both classes occur in the labels
FitRaises(rows) == \A i \in 1..Len(rows) : \A j \in 1..Len(rows) :
                     rows[i].label = rows[j].label

\* the fitted model: what it was fitted on and the column order of the fit
Fit(rows, features) ==
  [fit_on |-> [i \in 1..Len(rows) |-> rows[i].label], feature_names_in |-> features]

\* fix_labels_and_train.py: the corrected labels are written before the
\* fit, the model and the predictions after it
FixLabelsV1 ==
  /\ pc = "ml"
  /\ steps < MaxRuns
  /\ LET fixed == Relabel(labeled_csv, FALSE_POSITIVES_V1, 1, 0)
         fixes_made == NumFixed(labeled_csv, FALSE_POSITIVES_V1, 1)
         model == Fit(fixed, feature_cols_a)
     IN  /\ log' = Append(log, [script |-> "fix_labels_and_train",
                                text |-> "Fixed labels", n |-> fixes_made])
         /\ v1_out' =
              IF FitRaises(fixed)
              THEN [v1_out EXCEPT !.corrected = FileOf(fixed)]
              ELSE [corrected   |-> FileOf(fixed),
                    model       |-> FileOf([model |-> model, features |-> feature_cols_a]),
                    predictions |-> FileOf(fixed)]
  /\ steps' = steps + 1
  /\ UNCHANGED <<pc, labeled_csv, cand_columns, v2_out, phase3_out, prediction,
                 summary_json, poi_catalog, pois, candidate_pairs, brand_matches,
                 crosswalk_file, nameVars, advanVars, candVars, sampleVars, tierVars, genVars,
                 t3Vars>>

\* fix_labels_v2_and_train.py: model B is the one that is pickled
FixLabelsV2 ==
  /\ pc = "ml"
  /\ steps < MaxRuns
  /\ LET fp_fixed == NumFixed(labeled_csv, FALSE_POSITIVES, 1)
         after_fp == Relabel(labeled_csv, FALSE_POSITIVES, 1, 0)
         fn_fixed == NumFixed(after_fp, FALSE_NEGATIVES_TO_FIX, 0)
         fixed == Relabel(after_fp, FALSE_NEGATIVES_TO_FIX, 0, 1)
         model_b == Fit(fixed, feature_cols_b)
     IN  /\ log' = log \o
              <<[script |-> "fix_labels_v2_and_train",
                 text |-> "Fixed false positives", n |-> fp_fixed],
                [script |-> "fix_labels_v2_and_train",
                 text |-> "Fixed false negatives", n |-> fn_fixed]>>
         /\ v2_out' =
              IF FitRaises(fixed)
              THEN [v2_out EXCEPT !.corrected = FileOf(fixed)]
              ELSE [corrected   |-> FileOf(fixed),
                    model       |-> FileOf([model |-> model_b,
                                            features |-> feature_cols_b,
                                            normalize_func |-> "normalize_name"]),
                    predictions |-> FileOf(fixed)]
  /\ steps' = steps + 1
  /\ UNCHANGED <<pc, labeled_csv, cand_columns, v1_out, phase3_out, prediction,
                 summary_json, poi_catalog, pois, candidate_pairs, brand_matches,
                 crosswalk_file, nameVars, advanVars, candVars, sampleVars, tierVars, genVars,
                 t3Vars>>

\* FEATURES of phase 3
FEATURES == <<"cos_sim", "jaro_winkler", "token_jaccard", "contains_match">>

\* the values find_optimal_threshold can return, in thousandths
ThresholdValues == {300, 400, 500}

\* phase 3: fit, find_optimal_threshold on the test split, then the model,
\* the coefficients and the metrics are written
TrainPhase3 ==
  /\ pc = "ml"
  /\ steps < MaxRuns
  /\ \E best_thresh \in ThresholdValues :
       phase3_out' =
         IF FitRaises(labeled_csv)
         THEN phase3_out
         ELSE [model        |-> FileOf(Fit(labeled_csv, FEATURES)),
               coefficients |-> FileOf(Append(FEATURES, "intercept")),
               metrics      |-> FileOf([optimal_threshold |-> best_thresh])]
  /\ steps' = steps + 1
  /\ UNCHANGED <<pc, labeled_csv, cand_columns, v1_out, v2_out, prediction,
                 summary_json, log, poi_catalog, pois, candidate_pairs,
                 brand_matches, crosswalk_file, nameVars, advanVars, candVars, sampleVars, tierVars,
                 genVars, t3Vars>>

\* --threshold of phase 4: not given (None), or a value in thousandths
ThresholdArgs == {[given |-> FALSE, value |-> 0], [given |-> TRUE, value |-> 500]}

\* the columns phase 1 writes to the candidate pair table
Phase1Columns ==
  {"poi_name_idx", "company_idx", "location_name", "company_name", "cos_sim",
   "jaro_winkler", "token_jaccard", "contains_match", "placekeys", "rcids",
   "n_pois", "msa"}

\* candidates[feature_cols] in a variant that skips the stored features the
\* candidate table does not have
SelectColumnsSkipsMissing(feature_cols, columns) ==
  [raises |-> FALSE, cols |-> SelectSeq(feature_cols, LAMBDA f : f \in columns)]

\* candidates[feature_cols]: KeyError for a column that is missing
SelectColumns(feature_cols, columns) ==
  [raises |-> \E k \in 1..Len(feature_cols) : feature_cols[k] \notin columns,
   cols   |-> feature_cols]

\* the probabilities predict_proba returns, in thousandths
ProbValues == {300, 450, 600}

\* cos_sim of the candidates of POI name p, by rank, in the candidate tables
\* phase 4 reads here
CrosswalkSims(p) == [k \in 1..TOP_K |-> IF k = 1 /\ p # 2 THEN 900 ELSE 800]

CrosswalkCos == {800, 900}

\* top_indices of POI name p in those tables
CrosswalkTop(p) == [k \in 1..TOP_K |-> ((p + k - 2) % NC) + 1]

\* company_name_to_rcids of phase 1: the rcids that carry a company name
RcidsOf(company_name) ==
  CASE company_name = MsaCompanyNameOf(1) -> <<101>>
    [] company_name = MsaCompanyNameOf(2) -> <<102, 202>>
    [] company_name = MsaCompanyNameOf(3) -> <<103>>
    [] OTHER -> <<104>>

\* Series.unique(): the values in order of first appearance
RECURSIVE Unique(_)
Unique(seq) ==
  IF seq = <<>> THEN <<>>
  ELSE LET init == Unique(SubSeq(seq, 1, Len(seq) - 1))
           last == seq[Len(seq)]
       IN  IF \E k \in 1..Len(init) : init[k] = last THEN init
           ELSE Append(init, last)

\* poi_name_to_placekeys[name]: the placekeys of the rows with that name
poi_name_to_placekeys(poi_table, name) ==
  LET rows == SelectSeq(poi_table, LAMBDA r : r.location_name = name)
  IN  [k \in 1..Len(rows) |-> rows[k].placekey]

\* the candidate pair file phase 1 writes for a POI table: the feature
\* records with placekeys, rcids, n_pois and msa added.  Phase 1 ends in an
\* error, and writes no file, for an empty POI table.
CandidatePairs(poi_table) ==
  LET unique_names == Unique([k \in 1..Len(poi_table) |-> poi_table[k].location_name])
      company_names == [c \in 1..NC |-> MsaCompanyNameOf(c)]
      ti == [p \in 1..Len(unique_names) |-> CrosswalkTop(p)]
      ts == [p \in 1..Len(unique_names) |-> CrosswalkSims(p)]
      records == compute_features(unique_names, company_names, ti, ts)
  IN  IF unique_names = <<>> THEN Absent
      ELSE FileOf([n \in 1..Len(records) |->
                     records[n] @@
                     [placekeys |-> poi_name_to_placekeys(poi_table,
                                                          records[n].location_name),
                      rcids     |-> RcidsOf(records[n].company_name),
                      n_pois    |-> Len(poi_name_to_placekeys(poi_table,
                                                          records[n].location_name)),
                      msa       |-> "msa"]])

\* load_brand_rcids: the empty set when the file is missing
load_brand_rcids(file) ==
  IF ~file.exists THEN {}
  ELSE {file.data[k].rcid : k \in 1..Len(file.data)}

\* code points of the characters of the names
CharOrd(c) ==
  CASE c = " " -> 32 [] c = "." -> 46 [] c = "A" -> 65 [] c = "B" -> 66
    [] c = "a" -> 97 [] c = "b" -> 98 [] OTHER -> 127

\* a < b for strings
RECURSIVE StrLess(_, _)
StrLess(a, b) ==
  IF b = <<>> THEN FALSE
  ELSE IF a = <<>> THEN TRUE
  ELSE IF Head(a) # Head(b) THEN CharOrd(Head(a)) < CharOrd(Head(b))
  ELSE StrLess(Tail(a), Tail(b))

\* the group keys of groupby, in sorted order
RECURSIVE SortedKeys(_)
SortedKeys(keys) ==
  IF keys = {} THEN <<>>
  ELSE LET least == CHOOSE a \in keys : \A b \in keys \ {a} : StrLess(a, b)
       IN  <<least>> \o SortedKeys(keys \ {least})

\* the rows with is_predicted_match
PredictedMatches(probs, threshold) == {i \in 1..Len(probs) : probs[i] >= threshold}

\* the rows that sort_values('match_probability', ascending=False) can put
\* first among the matches of one name: the default sort is not stable, so
\* every row that has the highest probability of the name can come first
FirstOfGroup(cands, probs, matches, name) ==
  {i \in matches :
     /\ cands[i].location_name = name
     /\ \A j \in matches :
          cands[j].location_name = name => probs[j] <= probs[i]}

\* the tables matches.sort_values(...).groupby('location_name').first()
\* .reset_index() can be: one row per name that has a match, in key order
BestMatches(cands, probs, threshold) ==
  LET matches == PredictedMatches(probs, threshold)
      keys == {cands[i].location_name : i \in matches}
      order == SortedKeys(keys)
      firsts == {f \in [keys -> 1..Len(cands)] :
                   \A name \in keys : f[name] \in FirstOfGroup(cands, probs, matches, name)}
  IN  {[k \in 1..Len(order) |->
          cands[f[order[k]]] @@
          [match_probability |-> probs[f[order[k]]], is_predicted_match |-> TRUE]] :
       f \in firsts}

\* x[0] if x else None, for a list of rcids
primary_rcid(rcids) == IF rcids # <<>> THEN rcids[1] ELSE NaN

\* the truth value of a column entry that holds more than one rcid is a
\* ValueError when the parquet engine hands the lists over as arrays
FlagCanRaise(best_matches, brand_rcids) ==
  /\ Len(best_matches) > 0
  /\ brand_rcids # {}
  /\ \E k \in 1..Len(best_matches) : Len(best_matches[k].rcids) > 1

\* a variant that flags a match when any rcid of the company is a brand rcid
FlagLikelyUncodedAnyRcid(best_matches, brand_rcids) ==
  [k \in 1..Len(best_matches) |->
     IF brand_rcids # {}
     THEN best_matches[k] @@
          [primary_rcid |-> primary_rcid(best_matches[k].rcids),
           is_likely_uncoded_brand |->
             \E r \in 1..Len(best_matches[k].rcids) :
               best_matches[k].rcids[r] \in brand_rcids]
     ELSE best_matches[k] @@ [is_likely_uncoded_brand |-> FALSE]]

\* step [7]: primary_rcid and is_likely_uncoded_brand when there are brand
\* rcids, is_likely_uncoded_brand = False when there are none
FlagLikelyUncoded(best_matches, brand_rcids) ==
  [k \in 1..Len(best_matches) |->
     IF brand_rcids # {}
     THEN best_matches[k] @@
          [primary_rcid |-> primary_rcid(best_matches[k].rcids),
           is_likely_uncoded_brand |->
             primary_rcid(best_matches[k].rcids) \in brand_rcids]
     ELSE best_matches[k] @@ [is_likely_uncoded_brand |-> FALSE]]

\* the dict appended for one placekey of a best match
ExpandedRow(row, pk) ==
  [placekey                |-> pk,
   location_name           |-> row.location_name,
   rcid                    |-> IF "primary_rcid" \in DOMAIN row
                               THEN row.primary_rcid ELSE row.rcids[1],
   company_name            |-> row.company_name,
   match_probability       |-> row.match_probability,
   cos_sim                 |-> row.cos_sim,
   jaro_winkler            |-> row.jaro_winkler,
   is_likely_uncoded_brand |-> row.is_likely_uncoded_brand,
   msa                     |-> row.msa]

\* a variant of step [8] that writes one row per best match
RECURSIVE ExpandFirstPlacekey(_)
ExpandFirstPlacekey(best_matches) ==
  IF best_matches = <<>> THEN <<>>
  ELSE <<ExpandedRow(Head(best_matches), Head(best_matches).placekeys[1])>>
         \o ExpandFirstPlacekey(Tail(best_matches))

\* step [8]: one row per placekey of every best match
RECURSIVE Expand(_)
Expand(best_matches) ==
  IF best_matches = <<>> THEN <<>>
  ELSE LET row == Head(best_matches)
       IN  [k \in 1..Len(row.placekeys) |-> ExpandedRow(row, row.placekeys[k])]
             \o Expand(Tail(best_matches))

\* a variant of step [9] that writes the crosswalk over the brand matches
SaveCrosswalkOverBrandMatches(files, crosswalk) ==
  IF Len(crosswalk) > 0
  THEN [files EXCEPT !.crosswalk = FileOf(crosswalk),
                     !.brand_matches = FileOf(crosswalk)]
  ELSE files

\* step [9]: the crosswalk file is written only when there are rows
SaveCrosswalk(files, crosswalk) ==
  IF Len(crosswalk) > 0
  THEN [files EXCEPT !.crosswalk = FileOf(crosswalk)]
  ELSE files

\* phase 4, main(): the model file and the candidate file must exist;
\* candidates[feature_cols] and X['contains_match'] raise KeyError for a
\* column that is missing; the models followed here weigh cos_sim only
Predict ==
  /\ pc = "ml"
  /\ steps < MaxRuns
  /\ \E args \in ThresholdArgs :
       IF ~v2_out.model.exists \/ ~candidate_pairs.exists
       THEN /\ prediction' = [status |-> "FileNotFoundError"]
            /\ UNCHANGED <<summary_json, crosswalk_file, brand_matches>>
       ELSE \E cands \in {[i \in 1..Len(candidate_pairs.data) |->
                            candidate_pairs.data[i] @@
                            [jaro_winkler_norm |->
                               normalized_jaro_winkler(
                                 candidate_pairs.data[i].location_name,
                                 candidate_pairs.data[i].company_name)]]} :
            LET model_data == v2_out.model.data
                feature_cols == model_data.features
                threshold == IF args.given THEN args.value ELSE 400
                brand_rcids == load_brand_rcids(brand_matches)
                X == SelectColumns(feature_cols, cand_columns \cup {"jaro_winkler_norm"})
            IN  IF \/ X.raises
                   \/ \A k \in 1..Len(X.cols) : X.cols[k] # "contains_match"
                THEN /\ prediction' = [status |-> "KeyError"]
                     /\ UNCHANGED <<summary_json, crosswalk_file, brand_matches>>
                ELSE \E proba \in [CrosswalkCos -> ProbValues] :
                       LET probs == [i \in 1..Len(cands) |-> proba[cands[i].cos_sim]]
                       IN  \E best_matches \in BestMatches(cands, probs, threshold) :
                             \/ /\ FlagCanRaise(best_matches, brand_rcids)
                                /\ prediction' = [status |-> "ValueError"]
                                /\ UNCHANGED <<summary_json, crosswalk_file, brand_matches>>
                             \/ LET flagged == FlagLikelyUncoded(best_matches, brand_rcids)
                                    crosswalk == Expand(flagged)
                                    out == SaveCrosswalk([crosswalk     |-> crosswalk_file,
                                                          brand_matches |-> brand_matches],
                                                         crosswalk)
                                IN  /\ prediction' =
                                         [status       |-> "ok",
                                          given        |-> args.given,
                                          threshold    |-> threshold,
                                          X_columns    |-> X.cols,
                                          model_data   |-> model_data,
                                          probs        |-> probs,
                                          brand_rcids  |-> brand_rcids,
                                          best_matches |-> flagged,
                                          crosswalk    |-> crosswalk]
                                    /\ summary_json' =
                                         FileOf([threshold         |-> threshold,
                                                 total_candidates  |-> Len(cands),
                                                 predicted_matches |->
                                                   Cardinality(PredictedMatches(probs, threshold)),
                                                 unique_poi_names_matched |-> Len(flagged),
                                                 total_pois_matched       |-> Len(crosswalk),
                                                 likely_uncoded_brands    |->
                                                   Cardinality({k \in 1..Len(flagged) :
                                                     flagged[k].is_likely_uncoded_brand})])
                                    /\ crosswalk_file' = out.crosswalk
                                    /\ brand_matches' = out.brand_matches
  /\ steps' = steps + 1
  /\ UNCHANGED <<pc, labeled_csv, cand_columns, v1_out, v2_out, phase3_out, log,
                 poi_catalog, pois, candidate_pairs, nameVars, advanVars,
                 candVars, sampleVars, tierVars, genVars, t3Vars>>

\* sample id of row i of the labeled sample
LabeledId(i) ==
  CASE i = 1 -> 4
    [] i = 2 -> 208
    [] i = 3 -> 522
    [] OTHER -> 1000 + i

\* the POIs of name p in the catalog: the unbranded ones, then the ones
\* that carry brand p
PoisOfName(p, n_unbranded, n_branded) ==
  [k \in 1..(n_unbranded + n_branded) |->
     [placekey           |-> 10 * p + k,
      location_name      |-> PoiNameOf(p),
      safegraph_brand_id |-> IF k <= n_unbranded THEN NaN ELSE BrandId(p)]]

RECURSIVE Catalog(_, _, _)
Catalog(n, unbranded, branded) ==
  IF n = 0 THEN <<>>
  ELSE Catalog(n - 1, unbranded, branded) \o PoisOfName(n, unbranded[n], branded[n])

\* the residual set that flows to the candidate retriever: the POIs whose
\* brand has no decision among the brand matches
ResidualPois(catalog, matches) ==
  LET matched == IF matches.exists
                 THEN {matches.data[k].safegraph_brand_id : k \in 1..Len(matches.data)}
                 ELSE {}
  IN  SelectSeq(catalog, LAMBDA r : r.safegraph_brand_id \notin matched)

BrandMatch(b, rcid) == [safegraph_brand_id |-> BrandId(b), rcid |-> rcid]

\* contents of brand_matches_validated.parquet
BrandMatchFiles ==
  {Absent, FileOf(<<>>), FileOf(<<BrandMatch(1, 101)>>), FileOf(<<BrandMatch(1, 202)>>),
   FileOf(<<BrandMatch(1, 101), BrandMatch(2, 202)>>)}

TrainInit ==
  /\ \E n \in 0..MaxLabeled : \E label \in [1..n -> {0, 1}] :
       labeled_csv = [i \in 1..n |-> [sample_id |-> LabeledId(i), label |-> label[i]]]
  /\ cand_columns \in {Phase1Columns, Phase1Columns \ {"token_jaccard"}}
  /\ poi_catalog = PoisOfName(1, 1, 0)
  /\ brand_matches = Absent
  /\ pois = ResidualPois(poi_catalog, brand_matches)
  /\ candidate_pairs = CandidatePairs(pois)
  /\ crosswalk_file = Absent
  /\ NameIdle
  /\ v1_out = NoV1
  /\ v2_out = NoV1
  /\ phase3_out = NoPhase3
  /\ prediction = NoRun
  /\ summary_json = Absent
  /\ log = <<>>
  /\ steps = 0
  /\ pc = "ml"
  /\ sg = <<>>
  /\ paw = <<>>
  /\ tier1 = <<>>
  /\ tier2 = <<>>
  /\ GenIdle
  /\ cache = [f \in CacheFiles |-> NoFiles]
  /\ Tier3Idle
  /\ AdvanIdle
  /\ CandIdle
  /\ SampleIdle

TrainNext == FixLabelsV1 \/ FixLabelsV2 \/ TrainPhase3 \/ Predict

TrainSpec == TrainInit /\ [][TrainNext]_vars

(***************************************************************************)
(* Specification of phase 4 over the POI catalogs and brand match files    *)
(***************************************************************************)
\* the labeled sample and what fix_labels_v2_and_train.py made of it
CrosswalkLabeled ==
  <<[sample_id |-> LabeledId(1), label |-> 1], [sample_id |-> LabeledId(2), label |-> 0]>>

CrosswalkFixed ==
  Relabel(Relabel(CrosswalkLabeled, FALSE_POSITIVES, 1, 0), FALSE_NEGATIVES_TO_FIX, 0, 1)

\* what n runs of fix_labels_v2_and_train.py print about their fixes
RECURSIVE CrosswalkLog(_)
CrosswalkLog(n) ==
  IF n = 0 THEN <<>>
  ELSE CrosswalkLog(n - 1) \o
       <<[script |-> "fix_labels_v2_and_train", text |-> "Fixed false positives",
          n |-> NumFixed(CrosswalkLabeled, FALSE_POSITIVES, 1)],
         [script |-> "fix_labels_v2_and_train", text |-> "Fixed false negatives",
          n |-> NumFixed(Relabel(CrosswalkLabeled, FALSE_POSITIVES, 1, 0),
                         FALSE_NEGATIVES_TO_FIX, 0)]>>

\* fix_labels_v2_and_train.py has run MaxRuns - 1 times on the labeled
\* sample; phase 4 runs next
CrosswalkInit ==
  /\ \E unbranded \in [1..NP -> 0..MaxPlacekeys] : \E branded \in [1..NP -> 0..1] :
       poi_catalog = Catalog(NP, unbranded, branded)
  /\ brand_matches \in BrandMatchFiles
  /\ pois = ResidualPois(poi_catalog, brand_matches)
  /\ candidate_pairs = CandidatePairs(pois)
  /\ crosswalk_file = Absent
  /\ NameIdle
  /\ cand_columns = Phase1Columns
  /\ labeled_csv = CrosswalkLabeled
  /\ v1_out = NoV1
  /\ v2_out = [corrected   |-> FileOf(CrosswalkFixed),
               model       |-> FileOf([model |-> Fit(CrosswalkFixed, feature_cols_b),
                                       features |-> feature_cols_b,
                                       normalize_func |-> "normalize_name"]),
               predictions |-> FileOf(CrosswalkFixed)]
  /\ phase3_out = NoPhase3
  /\ prediction = NoRun
  /\ summary_json = Absent
  /\ log = CrosswalkLog(MaxRuns - 1)
  /\ steps = MaxRuns - 1
  /\ pc = "ml"
  /\ sg = <<>>
  /\ paw = <<>>
  /\ tier1 = <<>>
  /\ tier2 = <<>>
  /\ GenIdle
  /\ cache = [f \in CacheFiles |-> NoFiles]
  /\ Tier3Idle
  /\ AdvanIdle
  /\ CandIdle
  /\ SampleIdle

CrosswalkNext == Predict

CrosswalkSpec == CrosswalkInit /\ [][CrosswalkNext]_vars

(***************************************************************************)
(* Specification of normalize_name and of the features of a pair           *)
(***************************************************************************)
\* one more call of normalize_name, on the name or on the last result
NormalizeName ==
  /\ pc = "names"
  /\ Len(normalized) < 2
  /\ normalized' =
       Append(normalized,
              normalize_name_phase4(IF normalized = <<>> THEN name_arg
                                    ELSE normalized[Len(normalized)]))
  /\ UNCHANGED <<pc, name_arg, pair, pair_features, labeled_csv, cand_columns, v1_out,
                 v2_out, phase3_out, prediction, summary_json, log, steps,
                 poi_catalog, pois, candidate_pairs, brand_matches, crosswalk_file,
                 advanVars, candVars, sampleVars, tierVars, genVars, t3Vars>>

\* the features of one pair: the record of compute_features (phase 1) and
\* the jaro_winkler_norm column of phase 4; jellyfish raises TypeError for
\* a name that is not a string
ScorePair ==
  /\ pc = "names"
  /\ pair_features = NoRun
  /\ LET poi_name == pair.location_name
         company_name == pair.company_name
     IN  pair_features' =
           IF poi_name = NaN \/ company_name = NaN
           THEN [status |-> "TypeError"]
           ELSE [status            |-> "ok",
                 jaro_winkler      |-> JaroWinkler(poi_name, company_name),
                 token_jaccard     |-> token_jaccard(poi_name, company_name),
                 contains_match    |-> contains_match(poi_name, company_name),
                 jaro_winkler_norm |-> normalized_jaro_winkler(poi_name, company_name)]
  /\ UNCHANGED <<pc, name_arg, normalized, pair, labeled_csv, cand_columns, v1_out,
                 v2_out, phase3_out, prediction, summary_json, log, steps,
                 poi_catalog, pois, candidate_pairs, brand_matches, crosswalk_file,
                 advanVars, candVars, sampleVars, tierVars, genVars, t3Vars>>

\* the words the names are made of
NameWords ==
  {<<"a">>, <<"i", "n", "c">>, <<"I", "n", "c", ".">>, <<"c", "o">>,
   <<"t", "h", "e">>, <<"m", ".">>, <<"d">>, <<"m", "-", "d">>}

\* the names of n words
RECURSIVE NamesOfWords(_)
NamesOfWords(n) ==
  IF n = 1 THEN NameWords
  ELSE {w \o <<" ">> \o r : w \in NameWords, r \in NamesOfWords(n - 1)}

\* the arguments of normalize_name: None, '' and names of up to MaxWords words
NormNames == {NaN, <<>>} \cup UNION {NamesOfWords(n) : n \in 1..MaxWords}

\* the names of the pairs that are scored
PairNames == {NaN, <<>>, <<" ">>, <<"a">>, <<"A", " ", "b">>, <<"b", " ", "a">>, <<"a", ".">>}

NameInit ==
  /\ \/ /\ name_arg \in NormNames
        /\ pair = [location_name |-> <<"a">>, company_name |-> <<>>]
     \/ /\ name_arg = <<>>
        /\ pair \in [location_name : PairNames, company_name : PairNames]
  /\ normalized = <<>>
  /\ pair_features = NoRun
  /\ pc = "names"
  /\ labeled_csv = <<>>
  /\ cand_columns = {}
  /\ v1_out = NoV1
  /\ v2_out = NoV1
  /\ phase3_out = NoPhase3
  /\ prediction = NoRun
  /\ summary_json = Absent
  /\ log = <<>>
  /\ steps = 0
  /\ poi_catalog = <<>>
  /\ pois = <<>>
  /\ candidate_pairs = Absent
  /\ brand_matches = Absent
  /\ crosswalk_file = Absent
  /\ sg = <<>>
  /\ paw = <<>>
  /\ tier1 = <<>>
  /\ tier2 = <<>>
  /\ GenIdle
  /\ cache = [f \in CacheFiles |-> NoFiles]
  /\ Tier3Idle
  /\ AdvanIdle
  /\ CandIdle
  /\ SampleIdle

NameNext == NormalizeName \/ ScorePair

NameSpec == NameInit /\ [][NameNext]_vars

(***************************************************************************)
(* Properties of Tier 1 and Tier 2                                         *)
(***************************************************************************)
\* a ticker as the claims compare it: upper-cased and trimmed
NormalizedTicker(v) == StrStrip(StrUpper(v))

\* a value that is a ticker: not missing, not empty, not the 'None' marker
CarriesTicker(v) == v # NaN /\ v # <<>> /\ v # NoneStr

\* the target companies that carry the normalized ticker of brand row b
Carriers(b) ==
  {c \in 1..Len(paw) :
     /\ CarriesTicker(paw[c].ticker)
     /\ NormalizedTicker(paw[c].ticker) = NormalizedTicker(sg[b].STOCK_SYMBOL)}

Tier1Done == pc \notin {"tier1"}
Tier2Done == pc \notin {"tier1", "tier2"}

Tier1RowsOf(b) == {k \in 1..Len(tier1) : tier1[k].SAFEGRAPH_BRAND_ID = BrandId(b)}
Tier2RowsOf(b) == {k \in 1..Len(tier2) : tier2[k].SAFEGRAPH_BRAND_ID = BrandId(b)}

\* C1: a source brand whose normalized ticker is carried by zero target
\* companies or by more than one target company receives no Tier-1 match.
C1_AmbiguousTickerUnmatched ==
  Tier1Done =>
    \A b \in 1..Len(sg) :
      (CarriesTicker(sg[b].STOCK_SYMBOL) /\ Cardinality(Carriers(b)) # 1)
        => Tier1RowsOf(b) = {}

\* C2: a source brand whose ticker equals, case-insensitively and after
\* trimming, the ticker of exactly one target company is matched to that
\* company with match_tier 1 and confidence 1.0, whatever the names are.
C2_UniqueTickerMatched ==
  Tier1Done =>
    \A b \in 1..Len(sg) : \A c \in 1..Len(paw) :
      (CarriesTicker(sg[b].STOCK_SYMBOL) /\ Carriers(b) = {c})
        => /\ Cardinality(Tier1RowsOf(b)) = 1
           /\ \A k \in Tier1RowsOf(b) :
                /\ tier1[k].rcid = paw[c].rcid
                /\ tier1[k].match_tier = 1
                /\ tier1[k].confidence = 1000

\* C2 witness: a brand matched through a ticker that differs from the
\* company's ticker in case and whitespace, the two names being different
C2_Witness ==
  /\ Tier1Done
  /\ \E b \in 1..Len(sg) : \E c \in 1..Len(paw) :
       /\ CarriesTicker(sg[b].STOCK_SYMBOL)
       /\ Carriers(b) = {c}
       /\ sg[b].STOCK_SYMBOL # paw[c].ticker
       /\ sg[b].BRAND_NAME # paw[c].company_name
       /\ \E k \in Tier1RowsOf(b) : tier1[k].rcid = paw[c].rcid

\* C3: the Tier-1 output never holds two match decisions with the same
\* normalized ticker and different target companies (rcid).
C3_OneTargetPerTicker ==
  \A i \in 1..Len(tier1) : \A j \in 1..Len(tier1) :
    NormalizedTicker(tier1[i].STOCK_SYMBOL) = NormalizedTicker(tier1[j].STOCK_SYMBOL)
      => tier1[i].rcid = tier1[j].rcid

\* C3 witness: two brands matched on one ticker that two companies carry
C3_Witness ==
  /\ Tier1Done
  /\ \E i \in 1..Len(tier1) : \E j \in 1..Len(tier1) :
       /\ i # j
       /\ NormalizedTicker(tier1[i].STOCK_SYMBOL) = NormalizedTicker(tier1[j].STOCK_SYMBOL)
  /\ \E b \in 1..Len(sg) : Cardinality(Carriers(b)) > 1 /\ Tier1RowsOf(b) # {}

\* the Tier-1 decision of the brand with this id, if any
IsTier1Matched(id) == \E k \in 1..Len(tier1) : tier1[k].SAFEGRAPH_BRAND_ID = id

\* C4: a brand gets a Tier-2 decision only if it is not itself Tier-1
\* matched and its declared parent has a Tier-1 decision; the decision
\* carries the parent's target with confidence 0.95; a brand whose parent is
\* only Tier-2 matched or unmatched gets no Tier-2 decision.
C4_Tier2OnlyFromTier1Parent ==
  Tier2Done =>
    /\ \A k \in 1..Len(tier2) : \E b \in 1..Len(sg) :
         /\ tier2[k].SAFEGRAPH_BRAND_ID = BrandId(b)
         /\ ~IsTier1Matched(BrandId(b))
         /\ \E p \in 1..Len(tier1) :
              /\ tier1[p].SAFEGRAPH_BRAND_ID = sg[b].PARENT_SAFEGRAPH_BRAND_ID
              /\ tier2[k].rcid = tier1[p].rcid
              /\ tier2[k].company_name = tier1[p].company_name
         /\ tier2[k].match_tier = 2
         /\ tier2[k].confidence = 950
    /\ \A b \in 1..Len(sg) :
         ~IsTier1Matched(sg[b].PARENT_SAFEGRAPH_BRAND_ID) => Tier2RowsOf(b) = {}

\* C4 witness: a Tier-2 brand that is itself the parent of a brand left
\* without a Tier-2 decision
C4_Witness ==
  /\ Tier2Done
  /\ \E b \in 1..Len(sg) : \E d \in 1..Len(sg) :
       /\ Tier2RowsOf(b) # {}
       /\ sg[d].PARENT_SAFEGRAPH_BRAND_ID = BrandId(b)
       /\ Tier2RowsOf(d) = {}
       /\ Tier1RowsOf(d) = {}

(***************************************************************************)
(* Properties of generate_embeddings                                       *)
(***************************************************************************)
\* a zero or placeholder vector: a vector that embeds none of the names
IsPlaceholder(v) == \A k \in 1..Len(names) : v # Embed(names[k])

\* C9: if every attempt to embed a batch fails, generate_embeddings makes a
\* bounded number of attempts for that batch (5 in the tiered resolver, 2 in
\* singleton phase 1, 3 in the hybrid matcher), then propagates the failure;
\* it never returns or substitutes zero or placeholder vectors for the batch.
AttemptBound ==
  CASE script = "tiered"    -> 5
    [] script = "singleton" -> 2
    [] script = "hybrid"    -> 3
    [] script = "schoen"    -> 2

C9_BoundedRetriesThenRaise ==
  /\ [](/\ pc \in {"gen_batch", "raised"} => attempt + 1 <= AttemptBound
        /\ pc = "raised" =>
             /\ attempt + 1 = AttemptBound
             /\ ret[gen] = Absent
             /\ Len(all_embeddings) = (batch_num - 1) * BATCH_SIZE
        /\ pc \in {"gen_batch", "gen_save", "raised"} =>
             \A k \in 1..Len(all_embeddings) : ~IsPlaceholder(all_embeddings[k])
        /\ (gen # "none" /\ gen \in saved) =>
             /\ Len(ret[gen].data) = Len(names)
             /\ \A k \in 1..Len(ret[gen].data) : ~IsPlaceholder(ret[gen].data[k]))
  /\ [][(/\ pc = "gen_batch"
         /\ attempt + 1 = AttemptBound
         /\ batch_num' = batch_num
         /\ pc' # "gen_save")
          => (pc' = "raised" /\ all_embeddings' = all_embeddings /\ ret' = ret)]_vars

\* C9 witness: every attempt on the second batch has failed after the
\* vectors of the first batch were collected
C9_Witness ==
  /\ pc = "raised"
  /\ batch_num > 1
  /\ all_embeddings # <<>>

(***************************************************************************)
(* Properties of main() of the tiered resolver                             *)
(***************************************************************************)
Tier3Started ==
  \/ pc \in {"gen_check", "gen_batch", "gen_save", "raised", "score", "crashed", "done"}
  \/ gen # "none"
  \/ sg_unmatched # <<>>
  \/ brand_idx > 0
  \/ tier3 # <<>>

\* the brand rows Tier 3 has scored so far
ScoredRows == {sg_unmatched[k] : k \in 1..brand_idx}

Tier3RowsOf(b) == {k \in 1..Len(tier3) : tier3[k].SAFEGRAPH_BRAND_ID = BrandId(b)}

\* C5: Tier 3 candidate generation starts only after Tier 1 and Tier 2 have
\* both completed, and no source brand that holds a Tier-1 or Tier-2 decision
\* is ever scored or matched by tier3_fuzzy_matching.
C5_Tier3AfterTier12 ==
  Tier3Started =>
    /\ Tier1Done /\ Tier2Done
    /\ matched_brand_ids =
         {BrandId(b) : b \in {d \in 1..Len(sg) :
                                Tier1RowsOf(d) # {} \/ Tier2RowsOf(d) # {}}}
    /\ \A k \in 1..Len(sg_unmatched) :
         /\ Tier1RowsOf(sg_unmatched[k]) = {}
         /\ Tier2RowsOf(sg_unmatched[k]) = {}
    /\ \A b \in 1..Len(sg) :
         (Tier1RowsOf(b) # {} \/ Tier2RowsOf(b) # {})
           => (b \notin ScoredRows /\ Tier3RowsOf(b) = {})

\* C5 witness: Tier 3 has scored a brand while other brands hold a Tier-1
\* and a Tier-2 decision
C5_Witness ==
  /\ pc = "score"
  /\ brand_idx > 0
  /\ tier1 # <<>>
  /\ tier2 # <<>>

\* the decisions made so far for the brand with this id
DecisionsOf(id) ==
  {tier1[k] : k \in {m \in 1..Len(tier1) : tier1[m].SAFEGRAPH_BRAND_ID = id}}
    \cup {tier2[k] : k \in {m \in 1..Len(tier2) : tier2[m].SAFEGRAPH_BRAND_ID = id}}
    \cup {tier3[k] : k \in {m \in 1..Len(tier3) : tier3[m].SAFEGRAPH_BRAND_ID = id}}

\* C6: in the combined output every source brand id appears in at most one
\* match decision, and no later tier changes a decision made by an earlier
\* one.
C6_OneDecisionPerBrand ==
  /\ [](/\ \A b \in 1..Len(sg) :
             Cardinality(Tier1RowsOf(b)) + Cardinality(Tier2RowsOf(b))
               + Cardinality(Tier3RowsOf(b)) <= 1
        /\ pc = "done" =>
             /\ output_file = FileOf(all_matches)
             /\ Len(all_matches) = Len(tier1) + Len(tier2) + Len(tier3)
             /\ \A i \in 1..Len(all_matches) : \A j \in 1..Len(all_matches) :
                  all_matches[i].SAFEGRAPH_BRAND_ID = all_matches[j].SAFEGRAPH_BRAND_ID
                    => i = j
             /\ \A b \in 1..Len(sg) : \A d \in DecisionsOf(BrandId(b)) :
                  \E i \in 1..Len(all_matches) : all_matches[i] = d)
  /\ [][\A b \in 1..Len(sg) :
          DecisionsOf(BrandId(b)) # {}
            => DecisionsOf(BrandId(b))' = DecisionsOf(BrandId(b))]_vars

\* C6 witness: a written output that combines a decision of each tier
C6_Witness ==
  /\ pc = "done"
  /\ tier1 # <<>>
  /\ tier2 # <<>>
  /\ tier3 # <<>>
  /\ Len(all_matches) = Len(sg)
  /\ output_file.exists

\* the brand row scored by the last iteration, and its candidates' scores
LastScored == sg_unmatched[brand_idx]

ScoreOf(b, c) ==
  Candidate(normalize_name(sg[b].BRAND_NAME), paw[c].company_name, c,
            sim_row[c]).combined_score

TopKSet == {top_k_idx[k] : k \in 1..Len(top_k_idx)}

\* C7: an unresolved brand gets a Tier-3 decision only if the highest
\* combined score among its top-K candidates is at least the acceptance
\* floor, and the decision's target is a candidate attaining that highest
\* score; a brand with no candidate at or above the floor stays unmatched and
\* is never retried.
C7_Tier3FloorAndBest ==
  /\ [](brand_idx > 0 =>
          /\ \A k \in Tier3RowsOf(LastScored) :
               \E c \in TopKSet :
                 /\ tier3[k].rcid = paw[c].rcid
                 /\ ScoreOf(LastScored, c) >= 750
                 /\ \A d \in TopKSet : ScoreOf(LastScored, d) <= ScoreOf(LastScored, c)
          /\ (\A c \in TopKSet : ScoreOf(LastScored, c) < 750)
               => Tier3RowsOf(LastScored) = {})
  /\ [][/\ brand_idx' >= brand_idx
        /\ brand_idx' <= brand_idx + 1
        /\ \A b \in ScoredRows : Tier3RowsOf(b) = {} => Tier3RowsOf(b)' = {}]_vars

\* C7 witness: a brand matched to a candidate that is not the one of highest
\* cosine similarity, after a brand whose best candidate was below the floor
C7_Witness ==
  /\ brand_idx = 2
  /\ Tier3RowsOf(sg_unmatched[1]) = {}
  /\ \E k \in Tier3RowsOf(LastScored) :
       /\ tier3[k].rcid # paw[top_k_idx[1]].rcid
       /\ sim_row[top_k_idx[1]] > tier3[k].cos_sim

\* the weighted combined score of the features stored on a Tier-3 decision
StoredCombinedScore(r) ==
  (4 * r.cos_sim + 3 * r.jaro_winkler_norm + 2 * r.token_jaccard
     + 1 * r.contains_match) \div 10

C10_NoPartialPersisted ==
  /\ pc = "raised" =>
       /\ gen \notin saved
       /\ ret[gen] = Absent
       /\ output_file = Absent
       /\ all_matches = <<>>
  /\ output_file # Absent => pc = "done"

\* C10 witness: the company embeddings failed on their second batch after
\* the brand embeddings had been generated and cached
C10_Witness ==
  /\ pc = "raised"
  /\ gen = "company"
  /\ batch_num > 1
  /\ "brand" \in saved
  /\ tier1 # <<>>

(***************************************************************************)
(* Properties of the embedding cache                                       *)
(***************************************************************************)
\* a cache file of the running call holds as many vectors as names are asked
CountMatches(files) ==
  \/ files.json.exists /\ Len(files.json.data) = Len(names)
  \/ script = "tiered" /\ files.npy.exists /\ Len(files.npy.data) = Len(names)

\* C11: whenever a cached embedding file holds a different number of vectors
\* than the number of names requested, the cache is not used at all: every
\* consumer (generate_embeddings and load_advan_brands_and_embeddings)
\* regenerates the full set of embeddings and reuses no prefix or subset of
\* the mismatched file.
C11_MismatchedCacheNeverUsed ==
  /\ [][(pc = "gen_check" /\ ~CountMatches(cache[gen]))
          => (/\ pc' \in {"gen_batch", "gen_save"}
              /\ all_embeddings' = <<>>
              /\ ret' = ret)]_vars
  /\ [][(/\ pc = "load_advan"
         /\ cache["brand"].json.exists
         /\ Len(cache["brand"].json.data) # Len(advan))
          => (/\ advan_brands' = advan
              /\ advan_embeddings'.data = get_embeddings_batch(advan))]_vars

\* C12: cached embeddings are returned for a name list only when the cache
\* was built from exactly that list; whatever earlier runs left in the cache,
\* row i of the matrix generate_embeddings returns is the embedding of
\* names[i].
C12_ReturnedRowsEmbedNames ==
  pc = "returned" =>
    /\ Len(ret["single"].data) = Len(names)
    /\ \A i \in 1..Len(names) : ret["single"].data[i] = Embed(names[i])

(***************************************************************************)
(* Properties of the candidate retriever                                   *)
(***************************************************************************)
\* C13: for every source name find_top_k_candidates returns K distinct
\* target indices in non-increasing order of cosine similarity, so rank 1 has
\* the maximum similarity of the candidate set; in the candidate table the
\* records of a source are its ranks 1..K in order, without gap or repeat,
\* and no (source, target) pair occurs twice.
C13_RanksDenseAndSorted ==
  /\ \A p \in 1..Len(top_indices) :
       /\ Len(top_indices[p]) = TOP_K
       /\ Len(top_sims[p]) = TOP_K
       /\ \A i \in 1..TOP_K : \A j \in 1..TOP_K :
            /\ i # j => top_indices[p][i] # top_indices[p][j]
            /\ i < j => top_sims[p][i] >= top_sims[p][j]
            /\ top_sims[p][1] >= top_sims[p][j]
  /\ pc = "cand_done" =>
       /\ Len(candidates) = Len(unique_poi_names) * TOP_K
       /\ \A p \in 1..Len(unique_poi_names) : \A rank \in 1..TOP_K :
            LET r == candidates[(p - 1) * TOP_K + rank]
            IN  /\ r.poi_name_idx = p
                /\ r.company_idx = top_indices[p][rank]
                /\ r.cos_sim = top_sims[p][rank]
       /\ \A m \in 1..Len(candidates) : \A n \in 1..Len(candidates) :
            (/\ candidates[m].poi_name_idx = candidates[n].poi_name_idx
             /\ candidates[m].company_idx = candidates[n].company_idx) => m = n

\* C13 witness: two sources are ranked, one of them over tied similarities
C13_Witness ==
  /\ pc = "cand_done"
  /\ Len(unique_poi_names) >= 2
  /\ Len(candidates) = Len(unique_poi_names) * TOP_K
  /\ top_sims[1][1] = top_sims[1][2]
  /\ top_sims[2][1] > top_sims[2][2]

\* C14: when two targets have equal cosine similarity to a source, the
\* retriever orders the one with the smaller target index first and, at the
\* top-K boundary, selects it first, so the ranked list is a deterministic
\* function of the similarity row.
C14_TiesBySmallerIndex ==
  \A p \in 1..Len(top_indices) : \A i \in 1..TOP_K : \A j \in 1..TOP_K :
    (i < j /\ top_sims[p][i] = top_sims[p][j])
      => top_indices[p][i] < top_indices[p][j]

(***************************************************************************)
(* Properties of the sampling stage                                        *)
(***************************************************************************)
\* the pairs of the pool inside stratum k, and the target count of stratum k
StratumPairs(k) == BandRows(df, AllRows(df), strata[k].low, strata[k].high)
StratumTarget(k) == (n_samples * strata[k].proportion) \div 100

\* how many pairs the strata k.. lack for their target counts
RECURSIVE MissingFrom(_)
MissingFrom(k) ==
  IF k > Len(strata) THEN 0
  ELSE (IF Len(StratumPairs(k)) < StratumTarget(k)
        THEN StratumTarget(k) - Len(StratumPairs(k)) ELSE 0)
       + MissingFrom(k + 1)

\* the rows of the written sample that carry stratum name
SampledAs(name) ==
  {i \in 1..Len(sample_full.data) : sample_full.data[i].stratum = name}

\* C15: when a similarity stratum holds fewer pairs than its target count,
\* all of its pairs are taken, and the whole shortfall is filled with
\* additional pairs from the medium_high band (0.80-0.90) as far as that band
\* has unsampled pairs left: the extra rows are distinct medium_high pairs
\* that were not sampled already.
C15_ShortfallFilledFromMediumHigh ==
  runs >= 1 =>
    LET rows == sample_full.data
        medium_high_left == Len(StratumPairs(2)) - Cardinality(SampledAs("medium_high"))
    IN  /\ \A k \in 1..Len(strata) :
             Len(StratumPairs(k)) < StratumTarget(k) =>
               \A j \in 1..Len(StratumPairs(k)) :
                 \E i \in SampledAs(strata[k].name) : rows[i].pair = StratumPairs(k)[j]
        /\ Cardinality(SampledAs("medium_high_extra"))
             >= Min(MissingFrom(1), medium_high_left)
        /\ \A i \in SampledAs("medium_high_extra") :
             /\ rows[i].cos_sim >= 800 /\ rows[i].cos_sim < 900
             /\ \A j \in 1..Len(rows) : rows[j].pair = rows[i].pair => j = i

\* the sampling bands of the claim: >=0.90, 0.80-0.90, 0.70-0.80, 0.60-0.70
\* and <0.60
BandOf(v) ==
  CASE v >= 900 -> "high"
    [] v >= 800 /\ v < 900 -> "medium_high"
    [] v >= 700 /\ v < 800 -> "medium"
    [] v >= 600 /\ v < 700 -> "low"
    [] v < 600 -> "very_low"

\* C16: every candidate pair of the pool belongs to exactly one of the five
\* sampling bands for any cosine similarity in [-1, 1] (the strata of
\* stratified_sample are these bands), and each sampled pair records the
\* band it came from.
C16_EveryPairInOneBand ==
  /\ \A i \in 1..Len(df) :
       /\ Cardinality({k \in 1..Len(strata) :
                         df[i] >= strata[k].low /\ df[i] < strata[k].high}) = 1
       /\ \E k \in 1..Len(strata) :
            /\ strata[k].name = BandOf(df[i])
            /\ df[i] >= strata[k].low /\ df[i] < strata[k].high
  /\ \A i \in 1..Len(sample_full.data) :
       LET r == sample_full.data[i]
       IN  r.stratum \in {BandOf(r.cos_sim), "medium_high_extra"}

PersistedThreshold(artifact) ==
  IF "optimal_threshold" \in DOMAIN artifact
  THEN {artifact.optimal_threshold} ELSE {}

\* C18: the probability threshold the prediction stage applies when no
\* --threshold argument is given is the F1-maximizing threshold derived from,
\* and persisted with, the trained model it loads.
C18_DefaultThresholdFromModel ==
  (prediction.status = "ok" /\ ~prediction.given) =>
    prediction.threshold \in PersistedThreshold(prediction.model_data)

\* the columns the prediction stage can provide
ProvidedColumns == cand_columns \cup {"jaro_winkler_norm"}

StoredFeaturesProvided(model_data) ==
  \A k \in 1..Len(model_data.features) : model_data.features[k] \in ProvidedColumns

\* C19: the model artifact stores the ordered feature list used at training;
\* the prediction stage feeds the features to the model in exactly the stored
\* order, and when a stored feature is not among the features the prediction
\* stage provides the run ends in an error: it never scores, and never
\* writes a summary, on a mismatched feature list.
C19_StoredFeatureOrderUsed ==
  /\ v2_out.model.exists =>
       v2_out.model.data.features = v2_out.model.data.model.feature_names_in
  /\ prediction.status = "ok" =>
       /\ prediction.X_columns = prediction.model_data.features
       /\ prediction.X_columns = prediction.model_data.model.feature_names_in
       /\ StoredFeaturesProvided(prediction.model_data)
  /\ prediction.status = "KeyError" =>
       /\ v2_out.model.exists
       /\ ~StoredFeaturesProvided(v2_out.model.data)
  /\ summary_json.exists =>
       (v2_out.model.exists /\ StoredFeaturesProvided(v2_out.model.data))

\* C19 witness: the stored list names a feature the candidate table lacks
\* and the prediction run ended in KeyError without a summary
C19_Witness ==
  /\ prediction.status = "KeyError"
  /\ v2_out.model.exists
  /\ ~summary_json.exists

\* the rows of a corrected file whose label differs from the original
Relabeled(corrected) ==
  {i \in 1..Len(corrected.data) : corrected.data[i].label # labeled_csv[i].label}

\* the relabeling of a sample id is logged with a justification
LoggedWithJustification(id) ==
  \E e \in 1..Len(log) :
    /\ "sample_id" \in DOMAIN log[e]
    /\ "justification" \in DOMAIN log[e]
    /\ log[e].sample_id = id

\* C20: a relabeling run never overwrites existing state: the original
\* labeled file is left unchanged, a file of corrected labels or a retrained
\* model that exists is not replaced by different content, and each
\* relabeled sample id is logged with its justification.
C20_RelabelingVersionedAndLogged ==
  /\ [][labeled_csv' = labeled_csv]_vars
  /\ [][\A f \in {"corrected", "model", "predictions"} :
         /\ v1_out[f].exists => v1_out'[f] = v1_out[f]
         /\ v2_out[f].exists => v2_out'[f] = v2_out[f]]_vars
  /\ [](/\ \A i \in Relabeled(v1_out.corrected) :
             LoggedWithJustification(labeled_csv[i].sample_id)
        /\ \A i \in Relabeled(v2_out.corrected) :
             LoggedWithJustification(labeled_csv[i].sample_id))

(***************************************************************************)
(* Properties of the crosswalk assembler                                   *)
(***************************************************************************)
\* the candidate rows of a source name, and the rank of a row among them
RowsOfName(cands, name) == {i \in 1..Len(cands) : cands[i].location_name = name}

RankOf(cands, i) ==
  Cardinality({j \in 1..i : cands[j].location_name = cands[i].location_name})

\* the rows of a name that have its highest probability
HighestOfName(cands, probs, name) ==
  {i \in RowsOfName(cands, name) :
     \A j \in RowsOfName(cands, name) : probs[j] <= probs[i]}

\* the survivors of a name among the best matches
Survivors(name) ==
  {k \in 1..Len(prediction.best_matches) :
     prediction.best_matches[k].location_name = name}

\* C21: for every source name with at least one candidate whose probability
\* is at or above the threshold, exactly one candidate survives: one with the
\* highest match probability, and among candidates of equal highest
\* probability the one with the best (lowest) candidate rank.
C21_BestMatchTiesByRank ==
  prediction.status = "ok" =>
    LET cands == candidate_pairs.data
        probs == prediction.probs
    IN  \A i \in 1..Len(cands) :
          probs[i] >= prediction.threshold =>
            LET name == cands[i].location_name
                top == HighestOfName(cands, probs, name)
                best == CHOOSE t \in top : \A u \in top : RankOf(cands, t) <= RankOf(cands, u)
            IN  /\ Cardinality(Survivors(name)) = 1
                /\ \A k \in Survivors(name) :
                     /\ prediction.best_matches[k].match_probability = probs[best]
                     /\ prediction.best_matches[k].company_idx = cands[best].company_idx

\* the crosswalk rows of a source name, and its location records
CrosswalkRowsOf(name) ==
  {r \in 1..Len(prediction.crosswalk) : prediction.crosswalk[r].location_name = name}

LocationsOf(name) == {k \in 1..Len(pois) : pois[k].location_name = name}

\* C22: crosswalk expansion preserves location counts: for every matched
\* source name the number of crosswalk rows with that name equals the number
\* of location records (placekeys) sharing that name, and source names
\* without a surviving match contribute no rows.
C22_ExpansionPreservesLocationCount ==
  prediction.status = "ok" =>
    \A p \in 1..NP :
      LET name == PoiNameOf(p)
      IN  IF Survivors(name) # {}
          THEN /\ Cardinality(CrosswalkRowsOf(name)) = Cardinality(LocationsOf(name))
               /\ {prediction.crosswalk[r].placekey : r \in CrosswalkRowsOf(name)}
                    = {pois[k].placekey : k \in LocationsOf(name)}
          ELSE CrosswalkRowsOf(name) = {}

\* C22 witness: a name with two locations is matched and expanded while
\* another name of the candidate table has no surviving match
C22_Witness ==
  /\ prediction.status = "ok"
  /\ \E p \in 1..NP :
       /\ Survivors(PoiNameOf(p)) # {}
       /\ Cardinality(LocationsOf(PoiNameOf(p))) >= 2
  /\ \E q \in 1..NP :
       /\ LocationsOf(PoiNameOf(q)) # {}
       /\ Survivors(PoiNameOf(q)) = {}

\* the targets of the exact (brand) matches
ExactMatchTargets ==
  IF brand_matches.exists
  THEN {brand_matches.data[k].rcid : k \in 1..Len(brand_matches.data)}
  ELSE {}

\* C23: a surviving crosswalk match is flagged as likely duplicate of an
\* exact match exactly when its resolved target identifier appears in the set
\* of targets already matched by the exact (brand) matches; the identifier
\* that is tested is the same one written to the crosswalk row.
C23_FlaggedIffTargetInExactMatches ==
  prediction.status = "ok" =>
    /\ \A r \in 1..Len(prediction.crosswalk) :
         prediction.crosswalk[r].is_likely_uncoded_brand
           <=> (prediction.crosswalk[r].rcid \in ExactMatchTargets)
    /\ crosswalk_file.exists =>
         \A r \in 1..Len(crosswalk_file.data) :
           crosswalk_file.data[r].is_likely_uncoded_brand
             <=> (crosswalk_file.data[r].rcid \in ExactMatchTargets)

\* C23 witness: one crosswalk row is flagged, and another is not although a
\* further rcid of its company is the target of an exact match
C23_Witness ==
  /\ prediction.status = "ok"
  /\ \E r \in 1..Len(prediction.crosswalk) :
       prediction.crosswalk[r].is_likely_uncoded_brand
  /\ \E k \in 1..Len(prediction.best_matches) :
       /\ ~prediction.best_matches[k].is_likely_uncoded_brand
       /\ \E n \in 1..Len(prediction.best_matches[k].rcids) :
            prediction.best_matches[k].rcids[n] \in ExactMatchTargets

\* the brands that have a Tier-1/Tier-2 decision
MatchedBrands ==
  IF brand_matches.exists
  THEN {brand_matches.data[k].safegraph_brand_id :
          k \in {j \in 1..Len(brand_matches.data) :
                   "safegraph_brand_id" \in DOMAIN brand_matches.data[j]}}
  ELSE {}

\* the placekeys of the POIs whose brand is already matched
MatchedPlacekeys ==
  {poi_catalog[k].placekey :
     k \in {j \in 1..Len(poi_catalog) : poi_catalog[j].safegraph_brand_id \in MatchedBrands}}

C25_NormalizeIdempotent ==
  Len(normalized) = 2 => normalized[2] = normalized[1]

\* C26: an empty or null name normalizes to the empty string, and when
\* either name of a pair is empty every feature is zero/false: token_jaccard
\* is 0, normalized Jaro-Winkler is 0 and contains_match is false, so an
\* empty name never matches anything.
C26_EmptyNameNeverMatches ==
  /\ (name_arg \in {NaN, <<>>} /\ Len(normalized) >= 1) => normalized[1] = <<>>
  /\ (pair_features.status = "ok" /\ (pair.location_name = <<>> \/ pair.company_name = <<>>)) =>
       /\ pair_features.token_jaccard = 0
       /\ pair_features.jaro_winkler_norm = 0
       /\ ~pair_features.contains_match

(***************************************************************************)
(* Further properties of Tier 1                                            *)
(***************************************************************************)
\* a STOCK_SYMBOL that names no ticker
NoTicker(v) == v = NaN \/ v = <<>> \/ v = NoneStr \/ (v # NaN /\ StrStrip(v) = <<>>)

\* C27: a source brand whose STOCK_SYMBOL is missing, empty, the literal
\* 'None' or whitespace-only never receives a Tier-1 match, whatever tickers
\* (including empty or whitespace-only ones) the target companies carry.
C27_NoTickerNoTier1Match ==
  Tier1Done =>
    \A b \in 1..Len(sg) : NoTicker(sg[b].STOCK_SYMBOL) => Tier1RowsOf(b) = {}

(***************************************************************************)
(* Properties of the retry loop of generate_embeddings                     *)
(***************************************************************************)
\* C28: whichever attempts fail, as long as every batch succeeds within its
\* retry bound generate_embeddings returns exactly len(names) vectors and
\* row i is the embedding of names[i]: while the batches are fetched the
\* collected vectors are the embeddings of the names of the completed
\* batches, in order, so a failed attempt adds nothing and no batch is
\* appended twice, skipped or reordered.
C28_RetriesKeepRowsAligned ==
  /\ pc = "gen_batch" =>
       /\ Len(all_embeddings) = (batch_num - 1) * BATCH_SIZE
       /\ \A i \in 1..Len(all_embeddings) : all_embeddings[i] = Embed(names[i])
  /\ (pc = "gen_save" \/ (gen # "none" /\ gen \in saved)) =>
       /\ Len(all_embeddings) = Len(names)
       /\ \A i \in 1..Len(names) : all_embeddings[i] = Embed(names[i])
  /\ (gen # "none" /\ gen \in saved) =>
       /\ Len(ret[gen].data) = Len(names)
       /\ \A i \in 1..Len(names) : ret[gen].data[i] = Embed(names[i])

\* C28 witness: a call over more than one batch has returned after the last
\* batch failed at least once before it succeeded
C28_Witness ==
  /\ pc = "returned"
  /\ gen \in saved
  /\ batch_num > 1
  /\ attempt > 0
  /\ Len(ret[gen].data) = Len(names)

(***************************************************************************)
(* Properties of the rows stratified_sample returns                        *)
(***************************************************************************)
\* C29: stratified_sample never returns the same candidate pair twice and
\* never returns more than n_samples pairs; the extra pairs drawn from the
\* medium_high band are disjoint from the pairs sampled from that band.
C29_SampleHasNoDuplicatePair ==
  runs >= 1 =>
    LET rows == sample_full.data
    IN  /\ Len(rows) <= n_samples
        /\ \A i \in 1..Len(rows) : \A j \in 1..Len(rows) :
             rows[i].pair = rows[j].pair => i = j
        /\ \A i \in SampledAs("medium_high_extra") :
             \A j \in SampledAs("medium_high") : rows[i].pair # rows[j].pair

\* the sample never holds more than n_samples rows
SampleWithinSize ==
  runs >= 1 => Len(sample_full.data) <= n_samples

(***************************************************************************)
(* Properties of the v2 label correction                                   *)
(***************************************************************************)
\* the two relabeling loops of fix_labels_v2_and_train.py, one after the other
CorrectLabelsV2(rows) ==
  Relabel(Relabel(rows, FALSE_POSITIVES, 1, 0), FALSE_NEGATIVES_TO_FIX, 0, 1)

\* C30: after the v2 label correction every present sample id of
\* FALSE_POSITIVES has label 0, every present sample id of
\* FALSE_NEGATIVES_TO_FIX has label 1, every other sample keeps its label,
\* and the correction applied to its own output changes nothing.
C30_CorrectionSetsListedLabelsOnce ==
  v2_out.corrected.exists =>
    LET fixed == v2_out.corrected.data
    IN  /\ Len(fixed) = Len(labeled_csv)
        /\ \A i \in 1..Len(fixed) :
             /\ fixed[i].sample_id = labeled_csv[i].sample_id
             /\ fixed[i].sample_id \in FALSE_POSITIVES => fixed[i].label = 0
             /\ fixed[i].sample_id \in FALSE_NEGATIVES_TO_FIX => fixed[i].label = 1
             /\ fixed[i].sample_id \notin FALSE_POSITIVES \cup FALSE_NEGATIVES_TO_FIX
                  => fixed[i].label = labeled_csv[i].label
        /\ CorrectLabelsV2(fixed) = fixed

\* C30 witness: the correction has turned a false positive to 0 and a false
\* negative to 1 beside an unlisted sample labeled 1
C30_Witness ==
  /\ v2_out.corrected.exists
  /\ \E i \in 1..Len(labeled_csv) : \E j \in 1..Len(labeled_csv) :
     \E k \in 1..Len(labeled_csv) :
       /\ labeled_csv[i].sample_id \in FALSE_POSITIVES
       /\ labeled_csv[i].label = 1
       /\ v2_out.corrected.data[i].label = 0
       /\ labeled_csv[j].sample_id \in FALSE_NEGATIVES_TO_FIX
       /\ labeled_csv[j].label = 0
       /\ v2_out.corrected.data[j].label = 1
       /\ labeled_csv[k].sample_id \notin FALSE_POSITIVES \cup FALSE_NEGATIVES_TO_FIX
       /\ labeled_csv[k].label = 1
       /\ v2_out.corrected.data[k].label = 1

====
